---------------------------- MODULE Spec2Model ----------------------------
(***************************************************************************)
(* GIRO simulation tooling: the continuous test runner (health monitor,    *)
(* sync validator, cycle loop) of continuous_test_runner.py and the        *)
(* multi-PC test harness (run_test, registry, parallel orchestrator) of    *)
(* multi_pc_test_harness.py, and the websocket client of                   *)
(* real_action_tester.py.                                                  *)
(*                                                                         *)
(* Specifications:                                                         *)
(*   EvalSpec    - the HealthStatus that check_pc computes, on every       *)
(*                 observation of one node (dataset, counts, log)          *)
(*   Spec        - ContinuousTestRunner.run, console mode: cycles of       *)
(*                 check_all + validate_products                           *)
(*   SyncSpec    - SyncValidator.validate_products, pass after pass, on    *)
(*                 every product table of the data domain                  *)
(*   HarnessSpec - run_parallel_tests: one batch per roster node on a      *)
(*                 pool of max_workers threads, with checks that hang and  *)
(*                 batches that raise                                      *)
(*   BatchSpec   - run_pc_tests for one node: run_test after run_test,     *)
(*                 every outcome of the check and every suffix draw        *)
(*   SummarySpec - TestRegistry.get_summary on every registry of up to     *)
(*                 MaxResults results                                      *)
(*   RunSpec     - ContinuousTestRunner.run in console and dashboard mode, *)
(*                 with the stop signal, the duration and the 'q' key;     *)
(*                 FairRunSpec adds the scheduling of its two threads      *)
(*   FaultRunSpec - RunSpec with a divergence pass that meets a null price *)
(*   ConfigSpec  - RunSpec on every --interval, with the sleep that raises *)
(*   CheckSpec   - check_all in the cycle thread and in the dashboard       *)
(*                 thread, check_pc split at its lock                      *)
(*   ReadSpec    - db_query / db_count of both tools on every observation  *)
(*   LogSpec     - ProfessionalLogger.log in worker threads, split at its  *)
(*                 I/O                                                     *)
(*   WsSpec      - real_action_tester.py: GiroWebSocketClient.send_request *)
(*                 against a server that answers late or never;            *)
(*                 FairWsSpec adds the scheduling of the receiving step    *)
(*   SnapshotSpec - HealthMonitor.get_summary in the dashboard thread, pass *)
(*                 by pass, beside check_all in the cycle thread          *)
(*   ReferenceSpec - one validate_products pass of a cycle on datasets     *)
(*                 that are reachable or not, and the cycle's log line    *)
(*   StockSpec   - test_stock_consistency on every pair of seed id sets    *)
(*   ReportSpec  - the end of main: print_summary, generate_html_report,   *)
(*                 generate_json_report and the exit status, on every      *)
(*                 registry of up to MaxReport results                     *)
(***************************************************************************)
EXTENDS Integers, Sequences, FiniteSets, TLC

VARIABLES
    \* HealthMonitor
    statuses,         \* dict pc_id -> HealthStatus (a function on the keys present)
    history,          \* defaultdict(list): pc_id -> sequence of HealthStatus
    alerts,           \* list of alert dicts
    returned,         \* pc_id -> the values check_pc has returned, in call order
    clock,            \* wall clock read by datetime.now()
    \* SyncValidator
    inconsistencies,  \* self.inconsistencies
    vpc,              \* position in validate_products
    master_dict,      \* local of validate_products
    local_dict,       \* local of validate_products (rows of the peer read last)
    issues,           \* local of validate_products
    vidx,             \* index in PC_CONFIG of the peer to compare next
    \* ContinuousTestRunner
    cycle,            \* self.cycle
    rpc,              \* position in run / run_cycle
    idx,              \* check_all: index in PC_CONFIG of the node to check next
    \* evaluation of one health check
    evalNode, evalObs, evalOut,
    \* multi_pc_test_harness: main thread
    scenarios,        \* the scenario names run_parallel_tests is called with
    max_workers,      \* ThreadPoolExecutor(max_workers)
    hpc,              \* position of the main thread in run_parallel_tests
    collected,        \* the futures as_completed has yielded
    summary,          \* what test_registry.get_summary() returned, <<>> before the call
    \* multi_pc_test_harness: one batch (run_pc_tests) per roster node
    bpc,              \* pc_id -> position of its batch
    tpos,             \* pc_id -> index of its next test in the declared order
    results,          \* pc_id -> run_pc_tests' local results
    cur_test_id,      \* pc_id -> test_id of the running run_test
    cur_status,       \* pc_id -> local status of the running run_test
    fn_outcome,       \* pc_id -> what test_fn did in the node's last run_test
    exc,              \* pc_id -> class of the exception that left its batch
    \* TestRegistry and ProfessionalLogger
    registry,         \* test_registry._results: test_id -> TestResult
    entries,          \* logger._entries, as the multiset of the entries appended
    error_count,      \* logger._error_count
    warn_count,       \* logger._warn_count
    \* ContinuousTestRunner.run: the stop flag, the clock and the two threads
    running,          \* runner.running, cleared by the signal handler
    expired,          \* time.time() - self.start_time has reached self.duration
    use_dashboard,    \* the mode run was called in
    dashboard_running,  \* dashboard.running
    mpc,              \* position of the main thread in run
    final_count,      \* final summaries emitted
    interval,         \* self.interval, seconds slept between two cycles
    \* real_action_tester: one GiroWebSocketClient and its connection
    ws,               \* self.ws is set
    request_id,       \* self.request_id
    wpc,              \* position of the client in send_request
    sent_id,          \* request["id"] of the send_request in progress
    server_pending,   \* ids of the requests the server has received and not answered
    socket,           \* responses sent by the server and not yet read by recv()
    ws_results,       \* the calls of send_request so far, in call order
    \* one call of a dataset read helper on the node evalNode observed as evalObs
    read_out,         \* <<>> before the call, then what the helper did
    \* ProfessionalLogger.log called from the worker threads
    logger_lock,      \* the thread inside "with self._lock", or "none"
    lpc,              \* pc_id -> position of its worker thread in log
    log_entry,        \* pc_id -> the entry of its call in progress, as <<entry>>
    log_file,         \* the lines appended to self.log_file
    entry_list,       \* self._entries, in order
    json_file,        \* the lines appended to self.json_file
    error_file,       \* the lines appended to self.error_file
    gs_pc,            \* where the dashboard thread's get_summary call stands
    gs_acc,           \* its local values: the counts so far, the dict size at pass start
    \* HealthMonitor.check_all running in the cycle thread and in the dashboard
    check_idx,        \* thread -> index in PC_CONFIG of the node it checks, 0 outside
    check_status,     \* thread -> the status its check_pc has built, as <<status>>
    \* one call of a check or report function of the harness
    call_in,          \* what the call reads: its arguments and the data behind them
    call_out          \* <<>> before the call, then <<what it returned and logged>>

monitorVars == <<statuses, history, alerts, returned, clock>>
validatorVars == <<inconsistencies, vpc, master_dict, local_dict, issues, vidx>>
runnerVars == <<cycle, rpc, idx>>
evalVars == <<evalNode, evalObs, evalOut>>
mainVars == <<scenarios, max_workers, hpc, collected, summary>>
batchVars == <<bpc, tpos, results, cur_test_id, cur_status, fn_outcome, exc>>
loggerVars == <<entries, error_count, warn_count>>
harnessVars == <<mainVars, batchVars, registry, loggerVars>>
runVars == <<running, expired, use_dashboard, dashboard_running, mpc, final_count, interval>>
wsVars == <<ws, request_id, wpc, sent_id, server_pending, socket, ws_results>>
baseVars == <<monitorVars, validatorVars, runnerVars, evalVars, harnessVars, runVars>>
logVars == <<logger_lock, lpc, log_entry, log_file>>
checkVars == <<check_idx, check_status>>
callVars == <<call_in, call_out>>
fileVars == <<entry_list, json_file, error_file>>
gsVars == <<gs_pc, gs_acc>>
sideVars == <<callVars, fileVars, gsVars>>
auxVars == <<wsVars, read_out, logVars, checkVars, sideVars>>
vars == <<baseVars, auxVars>>

(***************************************************************************)
(* Bounds                                                                  *)
(***************************************************************************)
NumNodes == 2     \* roster: the first NumNodes entries of PC_CONFIG
MaxCycles == 2    \* cycles the duration budget allows
MaxResults == 10  \* results registered before a summary is taken

(***************************************************************************)
(* Configuration                                                           *)
(***************************************************************************)
AllPcs == <<"PC-PDV-01", "PC-PDV-02", "PC-ESTQ", "PC-GER", "PC-VEN-01",
            "PC-VEN-02", "PC-ADM", "PC-FIN", "PC-CAD", "PC-RESERVA">>

PC_CONFIG == SubSeq(AllPcs, 1, NumNodes)

MASTER == "PC-PDV-01"

Roster == {PC_CONFIG[i] : i \in 1..Len(PC_CONFIG)}

Range(s) == {s[i] : i \in 1..Len(s)}

\* the number of entries of es whose level is one of levels
Count2(es, levels) == Cardinality({i \in 1..Len(es) : es[i].level \in levels})

(***************************************************************************)
(* What one health check observes of a node: the dataset file, its row     *)
(* counts, the network settings rows, the runtime log.                     *)
(***************************************************************************)
DbStates == {"missing", "ok", "broken"}
LogStates == {"missing", "unreadable", "present"}
EmployeeCounts == {0, 1, 3}
ProductCounts == {0, 9, 10}
SaleCounts == {0, 4}

AllObs ==
    [db : DbStates, employees : EmployeeCounts, products : ProductCounts,
     sales : SaleCounts, net : BOOLEAN, log : LogStates,
     connected : BOOLEAN, logerr : BOOLEAN]

\* db_query: [] when the file does not exist or sqlite raises
db_query_settings(obs) == IF obs.db = "ok" /\ obs.net THEN <<"network.role">> ELSE <<>>

\* db_count: result[0]["cnt"] if result else 0
db_count(obs, table) ==
    IF obs.db # "ok" THEN 0
    ELSE CASE table = "employees" -> obs.employees
           [] table = "products" -> obs.products
           [] table = "sales" -> obs.sales

(***************************************************************************)
(* HealthMonitor.check_pc: the HealthStatus it builds                      *)
(***************************************************************************)
NewHealthStatus(pc_id, now) ==
    [pc_id |-> pc_id, timestamp |-> now, status |-> "OK", db_accessible |-> TRUE,
     employee_count |-> 0, product_count |-> 0, sale_count |-> 0,
     network_connected |-> TRUE, last_sync_time |-> "None",
     errors |-> <<>>, warnings |-> <<>>]

DatabaseNotFound(s) ==
    [s EXCEPT !.db_accessible = FALSE,
              !.errors = Append(@, "Database file not found"),
              !.status = "ERROR"]

GetCounts(s, obs) ==
    [s EXCEPT !.employee_count = db_count(obs, "employees"),
              !.product_count = db_count(obs, "products"),
              !.sale_count = db_count(obs, "sales")]
ValidateEmployees_LowOnly(s) ==
    IF s.employee_count < 3
    THEN [s EXCEPT !.warnings = Append(@, "Low employee count: " \o ToString(s.employee_count))]
    ELSE s

ValidateEmployees(s) ==
    IF s.employee_count = 0
    THEN [s EXCEPT !.errors = Append(@, "No employees in database"), !.status = "ERROR"]
    ELSE IF s.employee_count < 3
    THEN [s EXCEPT !.warnings = Append(@, "Low employee count: " \o ToString(s.employee_count))]
    ELSE s
\* a variant whose low-product threshold includes 10
ValidateProductCount_Inclusive(s) ==
    IF s.product_count = 0
    THEN [s EXCEPT !.errors = Append(@, "No products in database"), !.status = "ERROR"]
    ELSE IF s.product_count <= 10
    THEN [s EXCEPT !.warnings = Append(@, "Low product count: " \o ToString(s.product_count))]
    ELSE s

ValidateProductCount(s) ==
    IF s.product_count = 0
    THEN [s EXCEPT !.errors = Append(@, "No products in database"), !.status = "ERROR"]
    ELSE IF s.product_count < 10
    THEN [s EXCEPT !.warnings = Append(@, "Low product count: " \o ToString(s.product_count))]
    ELSE s

CheckNetworkSettings(s, obs) ==
    IF db_query_settings(obs) = <<>>
    THEN [s EXCEPT !.warnings = Append(@, "Missing network settings")]
    ELSE s
\* a variant without the exemption of the reference node
CheckLogConnectivity_NoExemption(s, obs) ==
    IF obs.connected
    THEN [s EXCEPT !.network_connected = TRUE]
    ELSE [s EXCEPT !.network_connected = FALSE,
                   !.warnings = Append(@, "No master connection in logs")]

CheckLogConnectivity(s, obs) ==
    IF obs.connected
    THEN [s EXCEPT !.network_connected = TRUE]
    ELSE IF s.pc_id # MASTER
    THEN [s EXCEPT !.network_connected = FALSE,
                   !.warnings = Append(@, "No master connection in logs")]
    ELSE s

CheckLogErrors(s, obs) ==
    IF obs.logerr
    THEN [s EXCEPT !.warnings = Append(@, "Errors found in runtime log")]
    ELSE s

\* a variant that looks at the warnings first
DetermineStatus_WarningsFirst(s) ==
    [s EXCEPT !.status = IF s.warnings # <<>> THEN "WARN"
                         ELSE IF s.errors # <<>> THEN "ERROR"
                         ELSE "OK"]

DetermineStatus(s) ==
    [s EXCEPT !.status = IF s.errors # <<>> THEN "ERROR"
                         ELSE IF s.warnings # <<>> THEN "WARN"
                         ELSE "OK"]

HealthCheckFailed(s) ==
    [s EXCEPT !.db_accessible = FALSE,
              !.errors = Append(@, "Health check failed: read error"),
              !.status = "ERROR"]

\* the body of the try block, up to the runtime log
EvaluateDataset(s, obs) ==
    CheckNetworkSettings(ValidateProductCount(ValidateEmployees(GetCounts(s, obs))), obs)

\* TRUE when check_pc leaves by the early return of the missing dataset
ReturnsEarly(obs) == obs.db = "missing"

\* a variant without the return of line 126: the rules run on the missing dataset
HealthEval_NoEarlyReturn(pc_id, now, obs) ==
    LET s0 == NewHealthStatus(pc_id, now)
        s1 == EvaluateDataset(IF ReturnsEarly(obs) THEN DatabaseNotFound(s0) ELSE s0, obs)
    IN CASE obs.log = "missing" -> DetermineStatus(s1)
         [] obs.log = "unreadable" -> HealthCheckFailed(s1)
         [] obs.log = "present" ->
              DetermineStatus(CheckLogErrors(CheckLogConnectivity(s1, obs), obs))

HealthEval(pc_id, now, obs) ==
    LET s0 == NewHealthStatus(pc_id, now) IN
    IF ReturnsEarly(obs) THEN DatabaseNotFound(s0)
    ELSE LET s1 == EvaluateDataset(s0, obs) IN
         CASE obs.log = "missing" -> DetermineStatus(s1)
           [] obs.log = "unreadable" -> HealthCheckFailed(s1)
           [] obs.log = "present" ->
                DetermineStatus(CheckLogErrors(CheckLogConnectivity(s1, obs), obs))


(***************************************************************************)
(* HealthMonitor.check_pc: recording the status (with self._lock held)     *)
(***************************************************************************)
SetItem(d, k, v) == [x \in DOMAIN d \cup {k} |-> IF x = k THEN v ELSE d[x]]

AlertOf(status) ==
    [time |-> status.timestamp, pc_id |-> status.pc_id, level |-> "ERROR",
     messages |-> status.errors]

GenerateAlerts(al, status) ==
    IF status.errors # <<>> THEN Append(al, AlertOf(status)) ELSE al
\* a variant that keeps a bounded window: only the latest status and alert
RecordStatus_LatestOnly(pc_id, status) ==
    /\ statuses' = SetItem(statuses, pc_id, status)
    /\ history' = [history EXCEPT ![pc_id] = <<status>>]
    /\ alerts' = IF status.errors # <<>> THEN <<AlertOf(status)>> ELSE alerts

\* check_pc, lines 184-197, under self._lock
RecordStatus(pc_id, status) ==
    /\ statuses' = SetItem(statuses, pc_id, status)
    /\ history' = [history EXCEPT ![pc_id] = Append(@, status)]
    /\ alerts' = GenerateAlerts(alerts, status)

CheckPc(pc_id, obs) ==
    LET status == HealthEval(pc_id, clock, obs) IN
    /\ clock' = clock + 1
    /\ returned' = [returned EXCEPT ![pc_id] = Append(@, status)]
    /\ IF ReturnsEarly(obs)
       THEN UNCHANGED <<statuses, history, alerts>>
       ELSE RecordStatus(pc_id, status)

\* HealthMonitor.get_summary
CountStatus(level) == Cardinality({k \in DOMAIN statuses : statuses[k].status = level})

get_summary ==
    [total |-> Cardinality(DOMAIN statuses), ok |-> CountStatus("OK"),
     warn |-> CountStatus("WARN"), error |-> CountStatus("ERROR"),
     alerts |-> Len(alerts)]

(***************************************************************************)
(* SyncValidator.validate_products                                         *)
(***************************************************************************)
ProductIdSeq == <<"prod-001", "prod-002">>   \* in ORDER BY id order
ProductIds == Range(ProductIdSeq)
NULL == "NULL"
Prices == {"5.00", "5.01", "5.02"}
ProductName(id) == "Produto " \o id

ProductRow(id, price) == [id |-> id, name |-> ProductName(id), sale_price |-> price]

\* what db_query returns for the products query, keyed by id: every table of
\* the domain; the empty one is also what an unreachable dataset reads as
TablesOver(prices) ==
    UNION {{[id \in ids |-> ProductRow(id, f[id])] : f \in [ids -> prices]} :
           ids \in SUBSET ProductIds}

AllTables == TablesOver(Prices \cup {NULL})

\* the sale_price column in cents
PriceCents(p) == CASE p = "5.00" -> 500 [] p = "5.01" -> 501 [] p = "5.02" -> 502

ToleranceCents == 1     \* 0.01

Abs(x) == IF x < 0 THEN -x ELSE x

\* a variant without tolerance
PriceDiffers_AnyDifference(a, b) == a # b

\* abs(a - b) > 0.01; on the prices of the domain the float comparison gives
\* what the comparison of their cents gives
PriceDiffers(a, b) == Abs(PriceCents(a) - PriceCents(b)) > ToleranceCents

\* the subtraction raises TypeError when a price is None
SubtractionRaises(a, b) == a = NULL \/ b = NULL

IdsInOrder(table) == SelectSeq(ProductIdSeq, LAMBDA id : id \in DOMAIN table)

MissingIssue(pc_id, row) ==
    [type |-> "MISSING_PRODUCT", pc_id |-> pc_id, product_id |-> row.id,
     details |-> "Product " \o row.name \o " missing on " \o pc_id]

MismatchIssue(pc_id, mrow, lrow) ==
    [type |-> "PRICE_MISMATCH", pc_id |-> pc_id, product_id |-> mrow.id,
     master_price |-> mrow.sale_price, local_price |-> lrow.sale_price]

\* a variant with the membership test inverted
MissingProducts_Inverted(pc_id, md, ld) ==
    LET ids == SelectSeq(IdsInOrder(md), LAMBDA id : id \in DOMAIN ld)
    IN [i \in 1..Len(ids) |-> MissingIssue(pc_id, md[ids[i]])]

MissingProducts(pc_id, md, ld) ==
    LET ids == SelectSeq(IdsInOrder(md), LAMBDA id : id \notin DOMAIN ld)
    IN [i \in 1..Len(ids) |-> MissingIssue(pc_id, md[ids[i]])]

PriceDifferences(pc_id, md, ld) ==
    LET ids == SelectSeq(IdsInOrder(md),
                   LAMBDA id : id \in DOMAIN ld
                               /\ PriceDiffers(md[id].sale_price, ld[id].sale_price))
    IN [i \in 1..Len(ids) |-> MismatchIssue(pc_id, md[ids[i]], ld[ids[i]])]

ComparisonRaises(md, ld) ==
    \E id \in DOMAIN md \cap DOMAIN ld : SubtractionRaises(md[id].sale_price, ld[id].sale_price)

PeerIssues(pc_id, md, ld) == MissingProducts(pc_id, md, ld) \o PriceDifferences(pc_id, md, ld)

\* index of the next roster entry after i that is not the master (Len+1 when none)
NextPeer(i) ==
    LET later == {j \in (i+1)..Len(PC_CONFIG) : PC_CONFIG[j] # MASTER}
    IN IF later = {} THEN Len(PC_CONFIG) + 1
       ELSE CHOOSE j \in later : \A k \in later : j <= k

EmptyTable == [id \in {} |-> ProductRow(id, NULL)]

\* issues = []; master_products = db_query("PC-PDV-01", ...)
ValidateReadMaster(tables) ==
    /\ vpc \in {"idle", "returned", "raised"}
    /\ \E t \in tables : master_dict' = t
    /\ issues' = <<>>
    /\ local_dict' = EmptyTable
    /\ vidx' = NextPeer(0)
    /\ vpc' = "peers"
    /\ UNCHANGED inconsistencies

\* one iteration of the loop over PC_CONFIG, for a peer
ValidatePeer(tables) ==
    /\ vpc = "peers"
    /\ vidx <= Len(PC_CONFIG)
    /\ \E t \in tables :
          IF ComparisonRaises(master_dict, t)
          THEN /\ vpc' = "raised"
               /\ master_dict' = EmptyTable
               /\ local_dict' = EmptyTable
               /\ issues' = <<>>
               /\ vidx' = 0
          ELSE /\ local_dict' = t
               /\ issues' = issues \o PeerIssues(PC_CONFIG[vidx], master_dict, t)
               /\ vidx' = NextPeer(vidx)
               /\ UNCHANGED <<vpc, master_dict>>
    /\ UNCHANGED inconsistencies

\* a variant that extends the stored findings instead of replacing them
StoreIssues_Extend(old, new) == old \o new

StoreIssues(old, new) == new

\* self.inconsistencies = issues; self.last_check = datetime.now()
ValidateStore ==
    /\ vpc = "peers"
    /\ vidx > Len(PC_CONFIG)
    /\ inconsistencies' = StoreIssues(inconsistencies, issues)
    /\ vpc' = "stored"
    /\ UNCHANGED <<master_dict, local_dict, issues, vidx>>

\* return issues
ValidateReturn ==
    /\ vpc = "stored"
    /\ vpc' = "returned"
    /\ master_dict' = EmptyTable
    /\ local_dict' = EmptyTable
    /\ issues' = <<>>
    /\ vidx' = 0
    /\ UNCHANGED inconsistencies

(***************************************************************************)
(* multi_pc_test_harness.py: ProfessionalLogger                            *)
(***************************************************************************)
LogEntry(level, category, pc_id, message) ==
    [level |-> level, category |-> category, pc_id |-> pc_id, message |-> message]

BagAdd(bag, e) ==
    IF e \in DOMAIN bag THEN [bag EXCEPT ![e] = @ + 1]
    ELSE [x \in DOMAIN bag \cup {e} |-> IF x = e THEN 1 ELSE bag[x]]

RECURSIVE BagAddAll(_, _)
BagAddAll(bag, es) ==
    IF es = <<>> THEN bag ELSE BagAddAll(BagAdd(bag, Head(es)), Tail(es))

\* ProfessionalLogger.log, once for each entry of es
Log(es) ==
    /\ entries' = BagAddAll(entries, es)
    /\ error_count' = error_count + Count2(es, {"ERROR", "FATAL"})
    /\ warn_count' = warn_count + Count2(es, {"WARN"})

(***************************************************************************)
(* TestRegistry, run_test                                                  *)
(***************************************************************************)
register_KeepFirst(reg, result) ==
    IF result.test_id \in DOMAIN reg THEN reg
    ELSE [x \in DOMAIN reg \cup {result.test_id} |->
             IF x = result.test_id THEN result ELSE reg[x]]

\* TestRegistry.register: self._results[result.test_id] = result
register(reg, result) ==
    [x \in DOMAIN reg \cup {result.test_id} |->
        IF x = result.test_id THEN result ELSE reg[x]]
\* the number of stored results with the given status
CountResults(reg, status) == Cardinality({id \in DOMAIN reg : reg[id].status = status})

FormatPercent_Truncated(passed, total) ==
    LET tenths == (1000 * passed) \div total
    IN ToString(tenths \div 10) \o "." \o ToString(tenths % 10) \o "%"

\* f"{(passed/total*100):.1f}%": the percentage rounded to one decimal. No
\* total up to 15 puts a percentage midway between two tenths, so the rounding
\* of such a tie does not arise.
FormatPercent(passed, total) ==
    LET tenths == (2000 * passed + total) \div (2 * total)
    IN ToString(tenths \div 10) \o "." \o ToString(tenths % 10) \o "%"

\* TestRegistry.get_summary (duration_s and the list of results left out)
TestRegistry_get_summary(reg) ==
    LET total == Cardinality(DOMAIN reg)
        passed == CountResults(reg, "PASSED")
    IN [total |-> total,
        passed |-> passed,
        failed |-> CountResults(reg, "FAILED"),
        errors |-> CountResults(reg, "ERROR"),
        pass_rate |-> IF total > 0 THEN FormatPercent(passed, total) ELSE "N/A"]

\* uuid.uuid4().hex[:8]: eight hex digits
Hex8 == {"0a1b2c3d", "9e8f7a6b"}
\* a variant whose ids leave the node out
TestId_NoNode(pc_id, test_name, hex) == test_name \o "_" \o hex

TestId(pc_id, test_name, hex) == pc_id \o "_" \o test_name \o "_" \o hex

\* what test_fn(pc_id) does: returns an empty list, returns a non-empty list of
\* failures, raises AssertionError, raises another Exception
Outcomes == {"empty", "failures", "AssertionError", "Exception"}

ReturnedFailures == <<"second check failed", "first check failed">>
AssertionMessage == "expected value"
ExceptionMessage == "unexpected fault"
Classify_AssertionIsError(outcome) ==
    CASE outcome = "empty" -> "PASSED"
      [] outcome = "failures" -> "FAILED"
      [] outcome = "AssertionError" -> "ERROR"
      [] outcome = "Exception" -> "ERROR"

\* the status run_test derives from the outcome (lines 445-459)
Classify(outcome) ==
    CASE outcome = "empty" -> "PASSED"
      [] outcome = "failures" -> "FAILED"
      [] outcome = "AssertionError" -> "FAILED"
      [] outcome = "Exception" -> "ERROR"

FailuresOf(outcome) ==
    CASE outcome = "failures" -> ReturnedFailures
      [] outcome = "AssertionError" -> <<AssertionMessage>>
      [] OTHER -> <<>>

ErrorOf(outcome) == IF outcome = "Exception" THEN ExceptionMessage ELSE "None"

TestResult(test_id, test_name, pc_id, category, outcome) ==
    [test_id |-> test_id, test_name |-> test_name, pc_id |-> pc_id,
     category |-> category, status |-> Classify(outcome),
     failures |-> FailuresOf(outcome), error |-> ErrorOf(outcome)]

\* the entries run_test logs once test_fn has returned or raised
CompletionEntries(pc_id, test_name, outcome) ==
    (CASE outcome = "AssertionError" ->
            <<LogEntry("ERROR", "TEST", pc_id, "Assertion failed: " \o test_name)>>
       [] outcome = "Exception" ->
            <<LogEntry("ERROR", "TEST", pc_id, "Error in test: " \o test_name)>>
       [] OTHER -> <<>>)
    \o <<LogEntry("INFO", "TEST", pc_id, Classify(outcome) \o " " \o test_name)>>

(***************************************************************************)
(* SCENARIO_TESTS, run_pc_tests, run_parallel_tests                        *)
(***************************************************************************)
Test(name, category) == [name |-> name, category |-> category]

ScenarioNames == {"database", "network", "sync", "pdv", "stress"}

SCENARIO_TESTS ==
    [sc \in ScenarioNames |->
        CASE sc = "database" -> <<Test("test_database_integrity", "DATABASE"),
                                  Test("test_required_data", "DATABASE")>>
          [] sc = "network" -> <<Test("test_network_config", "NETWORK"),
                                 Test("test_master_connectivity", "NETWORK")>>
          [] sc = "sync" -> <<Test("test_product_sync_master_to_satellite", "SYNC"),
                              Test("test_sale_sync_satellite_to_master", "SYNC"),
                              Test("test_stock_consistency", "SYNC")>>
          [] sc = "pdv" -> <<Test("test_pdv_sale_flow", "PDV")>>
          [] sc = "stress" -> <<Test("test_concurrent_sales", "PDV")>>]

\* SCENARIO_TESTS.get(scenario, [])
TestsOfScenario(sc) == IF sc \in ScenarioNames THEN SCENARIO_TESTS[sc] ELSE <<>>

RECURSIVE BatchTests_LastScenarioFirst(_)
BatchTests_LastScenarioFirst(scs) ==
    IF scs = <<>> THEN <<>>
    ELSE BatchTests_LastScenarioFirst(Tail(scs)) \o TestsOfScenario(Head(scs))

\* the tests of a batch, in the order run_pc_tests runs them
RECURSIVE BatchTests(_)
BatchTests(scs) ==
    IF scs = <<>> THEN <<>> ELSE TestsOfScenario(Head(scs)) \o BatchTests(Tail(scs))

\* PC_CONFIG[...]["type"] and ["role"]
PcType(pc_id) ==
    CASE pc_id \in {"PC-PDV-01", "PC-PDV-02", "PC-RESERVA"} -> "PDV"
      [] pc_id = "PC-ESTQ" -> "STOCK"
      [] pc_id = "PC-GER" -> "MANAGER"
      [] pc_id \in {"PC-VEN-01", "PC-VEN-02"} -> "SALES"
      [] pc_id = "PC-ADM" -> "ADMIN"
      [] pc_id = "PC-FIN" -> "FINANCE"
      [] pc_id = "PC-CAD" -> "REGISTER"

PcRole(pc_id) == IF pc_id = "PC-PDV-01" THEN "MASTER" ELSE "SATELLITE"

\* the checks that leave at once with "return []" on a node they do not apply to
NotApplicable(test_name, pc_id) ==
    \/ test_name \in {"test_pdv_sale_flow", "test_concurrent_sales"} /\ PcType(pc_id) # "PDV"
    \/ test_name = "test_master_connectivity" /\ PcRole(pc_id) = "MASTER"
    \/ test_name = "test_sale_sync_satellite_to_master" /\ pc_id = "PC-PDV-01"

\* what test_fn(pc_id) can do, among outcomes
CheckOutcomes(test_name, pc_id, outcomes) ==
    IF NotApplicable(test_name, pc_id) THEN {"empty"} ELSE outcomes

\* the scenario lists the harness is started with
ScenarioInputs == {<<"pdv">>, <<"pdv", "stress">>, <<"smoke">>}

\* the outcomes of test_fn the harness runs are checked with
HarnessOutcomes == {"empty", "AssertionError", "Exception"}

\* the suffix drawn in the harness runs: their scenario lists name no test twice,
\* so the ids of a run differ by node and test name whatever the suffixes are
HarnessHex8 == {"0a1b2c3d"}

RunningBatches == {n \in Roster : bpc[n] \in {"running", "in_test", "hung"}}

\* executor.submit for every roster node; the main thread then waits in as_completed
HarnessStart ==
    /\ hpc = "start"
    /\ hpc' = "waiting"
    /\ bpc' = [n \in Roster |-> "submitted"]
    /\ Log(<<LogEntry("INFO", "TEST", "HARNESS", "Starting parallel test execution")>>)
    /\ UNCHANGED <<scenarios, max_workers, summary, collected, tpos, results, cur_test_id,
                   cur_status, fn_outcome, exc, registry>>

\* a free worker takes the oldest submitted batch: run_pc_tests starts
BatchStart(n) ==
    /\ bpc[n] = "submitted"
    /\ Cardinality(RunningBatches) < max_workers
    /\ \A i, j \in 1..Len(PC_CONFIG) :
          (PC_CONFIG[j] = n /\ i < j) => bpc[PC_CONFIG[i]] # "submitted"
    /\ bpc' = [bpc EXCEPT ![n] = "running"]
    /\ tpos' = [tpos EXCEPT ![n] = 1]
    /\ Log(<<LogEntry("INFO", "TEST", n, "Starting test suite")>>)
    /\ UNCHANGED <<mainVars, results, cur_test_id, cur_status, fn_outcome, exc, registry>>

\* run_test up to the call of test_fn
TestStart(n, hexes) ==
    /\ bpc[n] = "running"
    /\ tpos[n] <= Len(BatchTests(scenarios))
    /\ \E hex \in hexes :
          cur_test_id' = [cur_test_id EXCEPT
                             ![n] = TestId(n, BatchTests(scenarios)[tpos[n]].name, hex)]
    /\ cur_status' = [cur_status EXCEPT ![n] = "RUNNING"]
    /\ bpc' = [bpc EXCEPT ![n] = "in_test"]
    /\ Log(<<LogEntry("INFO", "TEST", n,
                      "Starting: " \o BatchTests(scenarios)[tpos[n]].name)>>)
    /\ UNCHANGED <<mainVars, tpos, results, fn_outcome, exc, registry>>

\* test_fn returns or raises: run_test classifies, registers, logs and returns
TestFinish(n, outcomes) ==
    /\ bpc[n] = "in_test"
    /\ \E o \in CheckOutcomes(BatchTests(scenarios)[tpos[n]].name, n, outcomes) :
          LET t == BatchTests(scenarios)[tpos[n]]
              result == TestResult(cur_test_id[n], t.name, n, t.category, o)
          IN /\ fn_outcome' = [fn_outcome EXCEPT ![n] = o]
             /\ registry' = register(registry, result)
             /\ results' = [results EXCEPT ![n] = Append(@, result)]
             /\ cur_status' = [cur_status EXCEPT ![n] = result.status]
             /\ Log(CompletionEntries(n, t.name, o))
    /\ bpc' = [bpc EXCEPT ![n] = "running"]
    /\ tpos' = [tpos EXCEPT ![n] = @ + 1]
    /\ UNCHANGED <<mainVars, cur_test_id, exc>>

\* test_fn never returns
TestHangs(n) ==
    /\ bpc[n] = "in_test"
    /\ bpc' = [bpc EXCEPT ![n] = "hung"]
    /\ UNCHANGED <<mainVars, tpos, results, cur_test_id, cur_status, fn_outcome, exc, registry,
                   loggerVars>>

\* the classes of the exceptions a batch can end with
BatchFaults == {"OSError"}

\* run_test's first logger call stands outside its try: the entry is appended,
\* then a write to a log file raises, and the exception leaves run_pc_tests
BatchRaises(n) ==
    /\ bpc[n] = "running"
    /\ tpos[n] <= Len(BatchTests(scenarios))
    /\ bpc' = [bpc EXCEPT ![n] = "raised"]
    /\ \E e \in BatchFaults : exc' = [exc EXCEPT ![n] = e]
    /\ Log(<<LogEntry("INFO", "TEST", n,
                      "Starting: " \o BatchTests(scenarios)[tpos[n]].name)>>)
    /\ UNCHANGED <<mainVars, tpos, results, cur_test_id, cur_status, fn_outcome, registry>>

\* run_pc_tests: all tests run, the suite summary is logged, results returned
BatchReturn(n) ==
    /\ bpc[n] = "running"
    /\ tpos[n] > Len(BatchTests(scenarios))
    /\ bpc' = [bpc EXCEPT ![n] = "done"]
    /\ Log(<<LogEntry("INFO", "TEST", n, "Suite complete")>>)
    /\ UNCHANGED <<mainVars, tpos, results, cur_test_id, cur_status, fn_outcome, exc, registry>>

\* the exception classes "except Exception" does not catch
BaseExceptionOnly == {"KeyboardInterrupt", "SystemExit", "GeneratorExit"}

CaughtAtBoundary_Nothing(e) == FALSE

\* except Exception as e (line 1018)
CaughtAtBoundary(e) == e \notin BaseExceptionOnly

\* as_completed yields a finished future: future.result() returns the batch's
\* results or raises its exception again
Collect(n) ==
    /\ hpc = "waiting"
    /\ n \notin collected
    /\ bpc[n] \in {"done", "raised"}
    /\ collected' = collected \cup {n}
    /\ IF bpc[n] = "done"
       THEN UNCHANGED <<hpc, loggerVars>>
       ELSE IF CaughtAtBoundary(exc[n])
            THEN /\ Log(<<LogEntry("ERROR", "TEST", n, "Test execution failed")>>)
                 /\ UNCHANGED hpc
            ELSE /\ hpc' = "propagated"
                 /\ UNCHANGED loggerVars
    /\ UNCHANGED <<scenarios, max_workers, summary, batchVars, registry>>

\* every future yielded: the executor shuts down, run_parallel_tests returns
HarnessReturn ==
    /\ hpc = "waiting"
    /\ collected = Roster
    /\ hpc' = "returned"
    /\ UNCHANGED <<scenarios, max_workers, summary, collected, batchVars, registry, loggerVars>>

HarnessIdle ==
    /\ scenarios = <<>>
    /\ max_workers = 1
    /\ hpc = "idle"
    /\ collected = {}
    /\ summary = <<>>
    /\ bpc = [n \in Roster |-> "idle"]
    /\ tpos = [n \in Roster |-> 0]
    /\ results = [n \in Roster |-> <<>>]
    /\ cur_test_id = [n \in Roster |-> ""]
    /\ cur_status = [n \in Roster |-> "None"]
    /\ fn_outcome = [n \in Roster |-> "None"]
    /\ exc = [n \in Roster |-> "None"]
    /\ registry = <<>>
    /\ entries = <<>>
    /\ error_count = 0
    /\ warn_count = 0

(***************************************************************************)
(* ContinuousTestRunner.run (console mode) and run_cycle                   *)
(***************************************************************************)
\* the observations and product tables the cycles of Spec draw from
CycleObs ==
    {o \in AllObs : /\ o.products = 10 /\ o.sales = 4 /\ o.net
                    /\ o.log = "present" /\ o.connected /\ ~o.logerr
                    /\ \/ o.db = "missing" /\ o.employees = 3
                       \/ o.db = "ok" /\ o.employees \in {0, 3}}

CycleTables == {t \in TablesOver({"5.00"}) : DOMAIN t \subseteq {ProductIdSeq[1]}}

\* while self.running and (time.time() - self.start_time) < self.duration:
\*     run_cycle(): self.cycle += 1
RunCycleStart ==
    /\ rpc = "loop"
    /\ cycle < MaxCycles
    /\ cycle' = cycle + 1
    /\ rpc' = "check_all"
    /\ idx' = 1
    /\ UNCHANGED <<monitorVars, validatorVars, evalVars, harnessVars, runVars, auxVars>>

\* check_all: for pc in PC_CONFIG: self.check_pc(pc["id"])
CheckAllStepOn(observations) ==
    /\ rpc = "check_all"
    /\ idx <= Len(PC_CONFIG)
    /\ \E obs \in observations : CheckPc(PC_CONFIG[idx], obs)
    /\ idx' = idx + 1
    /\ UNCHANGED <<cycle, rpc, validatorVars, evalVars, harnessVars, runVars, auxVars>>

CheckAllStep == CheckAllStepOn(CycleObs)

\* check_all returns; summary = self.monitor.get_summary(); log
CheckAllReturn ==
    /\ rpc = "check_all"
    /\ idx > Len(PC_CONFIG)
    /\ rpc' = "validate"
    /\ UNCHANGED <<cycle, idx, monitorVars, validatorVars, evalVars, harnessVars, runVars, auxVars>>

\* sync_issues = self.validator.validate_products()
CycleValidateReadMaster ==
    /\ rpc = "validate"
    /\ vpc = "idle"
    /\ ValidateReadMaster(CycleTables)
    /\ UNCHANGED <<runnerVars, monitorVars, evalVars, harnessVars, runVars, auxVars>>

CycleValidatePeer ==
    /\ rpc = "validate"
    /\ ValidatePeer(CycleTables)
    /\ UNCHANGED <<runnerVars, monitorVars, evalVars, harnessVars, runVars, auxVars>>

CycleValidateStore ==
    /\ rpc = "validate"
    /\ ValidateStore
    /\ UNCHANGED <<runnerVars, monitorVars, evalVars, harnessVars, runVars, auxVars>>

CycleValidateReturn ==
    /\ rpc = "validate"
    /\ ValidateReturn
    /\ UNCHANGED <<runnerVars, monitorVars, evalVars, harnessVars, runVars, auxVars>>

\* the findings are logged; then the errors and warnings of self.monitor.statuses
CycleReport ==
    /\ rpc = "validate"
    /\ vpc = "returned"
    /\ vpc' = "idle"
    /\ rpc' = "report"
    /\ UNCHANGED <<cycle, idx, monitorVars, inconsistencies, master_dict,
                   local_dict, issues, vidx, evalVars, harnessVars, runVars, auxVars>>

\* run_cycle returns; time.sleep(self.interval)
RunCycleReturn ==
    /\ rpc = "report"
    /\ rpc' = "loop"
    /\ UNCHANGED <<cycle, idx, monitorVars, validatorVars, evalVars, harnessVars, runVars, auxVars>>

\* the loop condition fails (duration budget exhausted): final summary
FinalSummary ==
    /\ rpc = "loop"
    /\ rpc' = "done"
    /\ UNCHANGED <<cycle, idx, monitorVars, validatorVars, evalVars, harnessVars, runVars, auxVars>>
\* a GiroWebSocketClient after __init__, nothing on the wire
NoId == 0         \* self.request_id before the first request

WsIdle ==
    /\ ws = FALSE
    /\ request_id = NoId
    /\ wpc = "idle"
    /\ sent_id = NoId
    /\ server_pending = {}
    /\ socket = <<>>
    /\ ws_results = <<>>

LogIdle ==
    /\ logger_lock = "none"
    /\ lpc = [pc \in Roster |-> "idle"]
    /\ log_entry = [pc \in Roster |-> <<>>]
    /\ log_file = <<>>
    /\ entry_list = <<>>
    /\ json_file = <<>>
    /\ error_file = <<>>

CheckThreads == {"test_loop", "dashboard"}

CheckIdle ==
    /\ check_idx = [t \in CheckThreads |-> 0]
    /\ check_status = [t \in CheckThreads |-> <<>>]

CallIdle == call_in = <<>> /\ call_out = <<>>

GsIdle == gs_pc = "idle" /\ gs_acc = [size |-> 0]

AuxIdle == WsIdle /\ read_out = <<>> /\ LogIdle /\ CheckIdle /\ CallIdle /\ GsIdle

MonitorInit ==
    /\ statuses = <<>>
    /\ history = [n \in Roster |-> <<>>]
    /\ alerts = <<>>
    /\ returned = [n \in Roster |-> <<>>]
    /\ clock = 0

ValidatorInit ==
    /\ inconsistencies = <<>>
    /\ vpc = "idle"
    /\ master_dict = EmptyTable
    /\ local_dict = EmptyTable
    /\ issues = <<>>
    /\ vidx = 0

DefaultInterval == 30    \* --interval, default

\* console mode, no stop signal and no quit
RunIdle ==
    /\ running = TRUE
    /\ expired = FALSE
    /\ use_dashboard = FALSE
    /\ dashboard_running = FALSE
    /\ mpc = "console"
    /\ final_count = 0
    /\ interval = DefaultInterval

RunnerInit ==
    /\ cycle = 0
    /\ rpc = "loop"
    /\ idx = 0
    /\ RunIdle

EvalIdle ==
    /\ evalNode = MASTER
    /\ evalObs = CHOOSE o \in CycleObs : TRUE
    /\ evalOut = <<>>

Init == MonitorInit /\ ValidatorInit /\ AuxIdle /\ RunnerInit /\ EvalIdle /\ HarnessIdle

\* every tool before it is started, the call under evaluation left open
IdleButCall ==
    /\ MonitorInit /\ ValidatorInit /\ RunnerInit /\ EvalIdle /\ HarnessIdle
    /\ WsIdle /\ read_out = <<>> /\ LogIdle /\ CheckIdle /\ GsIdle

Next ==
    \/ RunCycleStart
    \/ CheckAllStep
    \/ CheckAllReturn
    \/ CycleValidateReadMaster
    \/ CycleValidatePeer
    \/ CycleValidateStore
    \/ CycleValidateReturn
    \/ CycleReport
    \/ RunCycleReturn
    \/ FinalSummary

Spec == Init /\ [][Next]_vars

(***************************************************************************)
(* EvalSpec: check_pc's HealthStatus, for every node and observation       *)
(***************************************************************************)
EvalInit ==
    /\ MonitorInit /\ ValidatorInit /\ AuxIdle /\ RunnerInit /\ HarnessIdle
    /\ evalNode \in Roster
    /\ evalObs \in AllObs
    /\ evalOut = <<>>

EvalCheckPc ==
    /\ evalOut = <<>>
    /\ evalOut' = <<HealthEval(evalNode, clock, evalObs)>>
    /\ UNCHANGED <<evalNode, evalObs, monitorVars, validatorVars, runnerVars, harnessVars, runVars, auxVars>>

EvalNext == EvalCheckPc

EvalSpec == EvalInit /\ [][EvalNext]_vars

(***************************************************************************)
(* SyncSpec: validate_products called pass after pass (run_cycle, or the   *)
(* dashboard's 's' key), the datasets changing freely between the reads    *)
(***************************************************************************)
\* the reference node's tables: every price and the null price on the first
\* product, the second product at 5.00 when held
ReferenceTables ==
    {t \in AllTables :
        ProductIdSeq[2] \in DOMAIN t => t[ProductIdSeq[2]].sale_price = "5.00"}

SyncReadMaster ==
    /\ ValidateReadMaster(ReferenceTables)
    /\ UNCHANGED <<runnerVars, monitorVars, evalVars, harnessVars, runVars, auxVars>>

SyncPeer ==
    /\ ValidatePeer(AllTables)
    /\ UNCHANGED <<runnerVars, monitorVars, evalVars, harnessVars, runVars, auxVars>>

SyncStore ==
    /\ ValidateStore
    /\ UNCHANGED <<runnerVars, monitorVars, evalVars, harnessVars, runVars, auxVars>>

SyncReturn ==
    /\ ValidateReturn
    /\ UNCHANGED <<runnerVars, monitorVars, evalVars, harnessVars, runVars, auxVars>>

SyncNext == SyncReadMaster \/ SyncPeer \/ SyncStore \/ SyncReturn

SyncSpec == Init /\ [][SyncNext]_vars


(***************************************************************************)
(* HarnessSpec: run_parallel_tests on the roster, for each scenario list   *)
(* and each width of the worker pool                                       *)
(***************************************************************************)
HarnessInit ==
    /\ MonitorInit /\ ValidatorInit /\ AuxIdle /\ RunnerInit /\ EvalIdle
    /\ scenarios \in ScenarioInputs
    /\ max_workers \in {1, NumNodes}
    /\ hpc = "start"
    /\ collected = {}
    /\ summary = <<>>
    /\ bpc = [n \in Roster |-> "idle"]
    /\ tpos = [n \in Roster |-> 0]
    /\ results = [n \in Roster |-> <<>>]
    /\ cur_test_id = [n \in Roster |-> ""]
    /\ cur_status = [n \in Roster |-> "None"]
    /\ fn_outcome = [n \in Roster |-> "None"]
    /\ exc = [n \in Roster |-> "None"]
    /\ registry = <<>>
    /\ entries = <<>>
    /\ error_count = 0
    /\ warn_count = 0

HarnessFrame == UNCHANGED <<monitorVars, validatorVars, runnerVars, evalVars, runVars, auxVars>>

HarnessNext ==
    \/ HarnessStart /\ HarnessFrame
    \/ \E n \in Roster :
          \/ BatchStart(n) /\ HarnessFrame
          \/ TestStart(n, HarnessHex8) /\ HarnessFrame
          \/ TestFinish(n, HarnessOutcomes) /\ HarnessFrame
          \/ TestHangs(n) /\ HarnessFrame
          \/ BatchRaises(n) /\ HarnessFrame
          \/ BatchReturn(n) /\ HarnessFrame
          \/ Collect(n) /\ HarnessFrame
    \/ HarnessReturn /\ HarnessFrame

HarnessSpec == HarnessInit /\ [][HarnessNext]_vars

(***************************************************************************)
(* BatchSpec: run_pc_tests called for one node, its tests run one after    *)
(* the other by run_test                                                   *)
(***************************************************************************)
\* the scenario lists a batch is run with; "--scenario=pdv,pdv" names one twice
BatchInputs == {<<"database">>, <<"pdv", "pdv">>, <<"network", "pdv">>, <<"smoke">>}

BatchInit ==
    /\ MonitorInit /\ ValidatorInit /\ AuxIdle /\ RunnerInit /\ EvalIdle
    /\ scenarios \in BatchInputs
    /\ max_workers = 1
    /\ hpc = "idle"
    /\ collected = {}
    /\ summary = <<>>
    /\ \E n \in Roster : bpc = [m \in Roster |-> IF m = n THEN "submitted" ELSE "idle"]
    /\ tpos = [n \in Roster |-> 0]
    /\ results = [n \in Roster |-> <<>>]
    /\ cur_test_id = [n \in Roster |-> ""]
    /\ cur_status = [n \in Roster |-> "None"]
    /\ fn_outcome = [n \in Roster |-> "None"]
    /\ exc = [n \in Roster |-> "None"]
    /\ registry = <<>>
    /\ entries = <<>>
    /\ error_count = 0
    /\ warn_count = 0

BatchNext ==
    \E n \in Roster :
        \/ BatchStart(n) /\ HarnessFrame
        \/ TestStart(n, Hex8) /\ HarnessFrame
        \/ TestFinish(n, Outcomes) /\ HarnessFrame
        \/ BatchReturn(n) /\ HarnessFrame

BatchSpec == BatchInit /\ [][BatchNext]_vars

(***************************************************************************)
(* SummarySpec: results registered one after the other, then               *)
(* TestRegistry.get_summary                                                *)
(***************************************************************************)
SummaryOutcomes == {"empty", "failures", "Exception"}

SummaryInit ==
    /\ MonitorInit /\ ValidatorInit /\ AuxIdle /\ RunnerInit /\ EvalIdle
    /\ scenarios = <<"database">>
    /\ max_workers = 1
    /\ hpc = "registering"
    /\ collected = {}
    /\ summary = <<>>
    /\ bpc = [n \in Roster |-> "idle"]
    /\ tpos = [n \in Roster |-> 0]
    /\ results = [n \in Roster |-> <<>>]
    /\ cur_test_id = [n \in Roster |-> ""]
    /\ cur_status = [n \in Roster |-> "None"]
    /\ fn_outcome = [n \in Roster |-> "None"]
    /\ exc = [n \in Roster |-> "None"]
    /\ registry = <<>>
    /\ entries = <<>>
    /\ error_count = 0
    /\ warn_count = 0

\* test_registry.register(result), the ids all different
SummaryRegister ==
    /\ hpc = "registering"
    /\ Cardinality(DOMAIN registry) < MaxResults
    /\ \E o \in SummaryOutcomes :
          LET k == Cardinality(DOMAIN registry) + 1
              id == TestId(MASTER, "test_required_data", ToString(10000000 + k))
          IN registry' = register(registry,
                                  TestResult(id, "test_required_data", MASTER, "DATABASE", o))
    /\ UNCHANGED <<mainVars, batchVars, loggerVars>>

\* summary = test_registry.get_summary()
SummaryGet ==
    /\ hpc = "registering"
    /\ hpc' = "summarised"
    /\ summary' = <<TestRegistry_get_summary(registry)>>
    /\ UNCHANGED <<scenarios, max_workers, collected, batchVars, registry, loggerVars>>

SummaryNext ==
    \/ SummaryRegister /\ HarnessFrame
    \/ SummaryGet /\ HarnessFrame

SummarySpec == SummaryInit /\ [][SummaryNext]_vars

(***************************************************************************)
(* RunSpec: ContinuousTestRunner.run in console and in dashboard mode,     *)
(* with the stop signal, the duration running out and the dashboard's 'q'. *)
(* In console mode the main thread runs the cycle loop; in dashboard mode  *)
(* a daemon thread does, beside the main thread in the dashboard.          *)
(***************************************************************************)
\* the observation and the product tables of the cycles of RunSpec: a healthy
\* node, the same products everywhere
RunObs ==
    {o \in CycleObs : o.db = "ok" /\ o.employees = 3}

RunTables == {t \in CycleTables : DOMAIN t # {}}

LoopContinues_IgnoresStop(isRunning, isExpired) == ~isExpired

\* self.running and (time.time() - self.start_time) < self.duration
LoopContinues(isRunning, isExpired) == isRunning /\ ~isExpired

\* time.sleep(self.interval) after a cycle returns unless the interval is
\* negative; the console loop sleeps only while self.running
SleepReturns ==
    cycle = 0 \/ interval >= 0 \/ (~use_dashboard /\ ~running)

\* the while condition holds: the loop body is entered
LoopTestPasses ==
    /\ rpc = "loop"
    /\ mpc # "terminated"
    /\ SleepReturns
    /\ LoopContinues(running, expired)
    /\ cycle < MaxCycles
    /\ rpc' = "enter"
    /\ UNCHANGED <<cycle, idx, monitorVars, validatorVars, evalVars, harnessVars, runVars, auxVars>>

\* the while condition fails: the loop is left; the dashboard's test_loop then
\* clears dashboard.running, the console loop goes on to the final summary
LoopExit ==
    /\ rpc = "loop"
    /\ mpc # "terminated"
    /\ SleepReturns
    /\ ~LoopContinues(running, expired)
    /\ rpc' = "exited"
    /\ IF use_dashboard
       THEN dashboard_running' = FALSE /\ UNCHANGED mpc
       ELSE mpc' = "summary" /\ UNCHANGED dashboard_running
    /\ UNCHANGED <<cycle, idx, monitorVars, validatorVars, evalVars, harnessVars, auxVars,
                   running, expired, use_dashboard, interval, final_count>>

\* run_cycle(): self.cycle += 1
RunCycleEnter ==
    /\ rpc = "enter"
    /\ cycle' = cycle + 1
    /\ rpc' = "check_all"
    /\ idx' = 1
    /\ UNCHANGED <<monitorVars, validatorVars, evalVars, harnessVars, runVars, auxVars>>

RunCheckAllStep == CheckAllStepOn(RunObs)

RunValidateReadMaster ==
    /\ rpc = "validate"
    /\ vpc = "idle"
    /\ ValidateReadMaster(RunTables)
    /\ UNCHANGED <<runnerVars, monitorVars, evalVars, harnessVars, runVars, auxVars>>

RunValidatePeer ==
    /\ rpc = "validate"
    /\ ValidatePeer(RunTables)
    /\ UNCHANGED <<runnerVars, monitorVars, evalVars, harnessVars, runVars, auxVars>>

\* _handle_signal: self.running = False
HandleSignal ==
    /\ running
    /\ mpc # "terminated"
    /\ running' = FALSE
    /\ UNCHANGED <<monitorVars, validatorVars, runnerVars, evalVars, harnessVars, auxVars,
                   expired, use_dashboard, interval, dashboard_running, mpc, final_count>>

\* the clock reaches start_time + duration
Expire ==
    /\ ~expired
    /\ mpc # "terminated"
    /\ expired' = TRUE
    /\ UNCHANGED <<monitorVars, validatorVars, runnerVars, evalVars, harnessVars, auxVars,
                   running, use_dashboard, interval, dashboard_running, mpc, final_count>>

\* LiveDashboard.draw reads the key 'q': self.running = False
DashboardQuit ==
    /\ mpc = "dashboard"
    /\ dashboard_running
    /\ dashboard_running' = FALSE
    /\ UNCHANGED <<monitorVars, validatorVars, runnerVars, evalVars, harnessVars, auxVars,
                   running, expired, use_dashboard, interval, mpc, final_count>>

\* while self.running fails in draw: dashboard.run() returns
DashboardReturn ==
    /\ mpc = "dashboard"
    /\ ~dashboard_running
    /\ mpc' = "summary"
    /\ UNCHANGED <<monitorVars, validatorVars, runnerVars, evalVars, harnessVars, auxVars,
                   running, expired, use_dashboard, interval, dashboard_running, final_count>>

\* the final summary is written (lines 607-615); run returns
EmitFinalSummary ==
    /\ mpc = "summary"
    /\ final_count' = final_count + 1
    /\ mpc' = "returned"
    /\ UNCHANGED <<monitorVars, validatorVars, runnerVars, evalVars, harnessVars, auxVars,
                   running, expired, use_dashboard, interval, dashboard_running>>

\* main returns and the process ends; a daemon thread still running ends with it
ProcessExit ==
    /\ mpc = "returned"
    /\ mpc' = "terminated"
    /\ rpc' = IF rpc = "exited" THEN rpc ELSE "killed"
    /\ UNCHANGED <<cycle, idx, monitorVars, validatorVars, evalVars, harnessVars, auxVars,
                   running, expired, use_dashboard, interval, dashboard_running, final_count>>

\* run(use_dashboard) on a runner built with an interval of the given set
RunStart(intervals) ==
    /\ MonitorInit /\ ValidatorInit /\ AuxIdle /\ EvalIdle /\ HarnessIdle
    /\ cycle = 0
    /\ rpc = "loop"
    /\ idx = 0
    /\ running = TRUE
    /\ expired = FALSE
    /\ use_dashboard \in BOOLEAN
    /\ dashboard_running = use_dashboard
    /\ mpc = IF use_dashboard THEN "dashboard" ELSE "console"
    /\ final_count = 0
    /\ interval \in intervals

RunInit == RunStart({DefaultInterval})

\* the steps of the thread in the cycle loop
LoopThreadNext ==
    \/ LoopTestPasses
    \/ LoopExit
    \/ RunCycleEnter
    \/ RunCheckAllStep
    \/ CheckAllReturn
    \/ RunValidateReadMaster
    \/ RunValidatePeer
    \/ CycleValidateStore
    \/ CycleValidateReturn
    \/ CycleReport
    \/ RunCycleReturn

\* the steps of the main thread outside the cycle loop
MainThreadNext ==
    \/ DashboardReturn
    \/ EmitFinalSummary
    \/ ProcessExit

RunNext ==
    \/ LoopThreadNext
    \/ MainThreadNext
    \/ HandleSignal
    \/ Expire
    \/ DashboardQuit

\* --interval takes any integer
Intervals == {-1, 0, DefaultInterval}

\* time.sleep(self.interval) raises ValueError on a negative interval, after
\* the first cycle has run (lines 591, 605); nothing catches it
SleepFault ==
    /\ rpc = "loop"
    /\ mpc # "terminated"
    /\ ~SleepReturns
    /\ rpc' = "raised"
    /\ mpc' = IF use_dashboard THEN mpc ELSE "terminated"
    /\ UNCHANGED <<cycle, idx, monitorVars, validatorVars, evalVars, harnessVars, auxVars,
                   running, expired, use_dashboard, interval, dashboard_running, final_count>>

\* the run on every interval the command line accepts
ConfigSpec == RunStart(Intervals) /\ [][RunNext \/ SleepFault]_vars

\* peer tables in which a product row has a null price
FaultTables == {t \in TablesOver({NULL}) : DOMAIN t = {ProductIdSeq[1]}}

\* abs(master_dict[pid]["sale_price"] - local_p["sale_price"]) raises on the
\* null price (line 274); validate_products, run_cycle and the loops have no
\* handler: in console mode the exception leaves run and main, in dashboard
\* mode it ends test_loop before line 592
RunValidateFault ==
    /\ rpc = "validate"
    /\ mpc # "terminated"
    /\ ValidatePeer(FaultTables)
    /\ vpc' = "raised"
    /\ rpc' = "raised"
    /\ mpc' = IF use_dashboard THEN mpc ELSE "terminated"
    /\ UNCHANGED <<cycle, idx, monitorVars, evalVars, harnessVars, auxVars,
                   running, expired, use_dashboard, interval, dashboard_running, final_count>>

\* the run with cycles whose divergence pass can raise
FaultRunSpec == RunInit /\ [][RunNext \/ RunValidateFault]_vars

RunSpec == RunInit /\ [][RunNext]_vars

\* both threads keep being scheduled; signals, the clock and keys are free
FairRunSpec == RunSpec /\ WF_vars(LoopThreadNext) /\ WF_vars(MainThreadNext)

(***************************************************************************)
(* real_action_tester.py: GiroWebSocketClient.send_request, one client on  *)
(* one connection, and the server answering its requests                   *)
(***************************************************************************)
MaxCalls == 3     \* calls of send_request the client makes

ServerErrors == {NULL, "Invalid token"}    \* "error" of a response; NULL: key absent
TransportFaults == {"ConnectionClosed"}    \* str(e) of what ws.send / ws.recv raise

\* the server's answer to request id
Response(id, success, error) ==
    [id |-> id, success |-> success,
     data |-> IF success THEN "data" ELSE NULL,
     error |-> IF success THEN NULL ELSE error]

\* an ActionResult (success, response, error) with the call it came from:
\* id is the request["id"] sent (NoId when nothing was sent), answered is
\* the request the response read by recv() was written for
ActionResult(success, response, error, id, answered, cause) ==
    [success |-> success, response |-> response, error |-> error,
     id |-> id, answered |-> answered, cause |-> cause]

ErrorText_Str(e) == e

\* the except clauses: asyncio.TimeoutError, then Exception as e -> str(e)
ErrorText(e) == IF e = "TimeoutError" THEN "Timeout" ELSE e

\* lines 108-126: the result built from the message recv() returned
ResultOf(response, id) ==
    IF response.success
       THEN ActionResult(TRUE, response.data, NULL, id, response.id, "response")
       ELSE ActionResult(FALSE, NULL,
                         IF response.error = NULL THEN "Unknown error" ELSE response.error,
                         id, response.id, "response")

Failed(e, id, cause) == ActionResult(FALSE, NULL, ErrorText(e), id, NoId, cause)

WsFrame == UNCHANGED <<baseVars, read_out, logVars, checkVars, sideVars>>

\* connect succeeds (a failed connect leaves self.ws unset)
connect ==
    /\ wpc = "idle" /\ ~ws
    /\ ws' = TRUE
    /\ UNCHANGED <<request_id, wpc, sent_id, server_pending, socket, ws_results>>
    /\ WsFrame

\* disconnect closes the connection: what was in flight on it is gone
disconnect ==
    /\ wpc = "idle" /\ ws
    /\ ws' = FALSE
    /\ server_pending' = {}
    /\ socket' = <<>>
    /\ UNCHANGED <<request_id, wpc, sent_id, ws_results>>
    /\ WsFrame

\* send_request up to ws.send (lines 90-106)
SendRequestSend ==
    /\ wpc = "idle"
    /\ Len(ws_results) < MaxCalls
    /\ IF ~ws
          THEN /\ ws_results' = Append(ws_results,
                       ActionResult(FALSE, NULL, "Not connected", NoId, NoId, "not connected"))
               /\ UNCHANGED <<request_id, wpc, sent_id, server_pending>>
          ELSE /\ request_id' = request_id + 1
               /\ sent_id' = request_id'
               /\ \/ /\ server_pending' = server_pending \cup {request_id'}
                     /\ wpc' = "recv"
                     /\ UNCHANGED ws_results
                  \/ \E e \in TransportFaults :
                       /\ ws_results' = Append(ws_results, Failed(e, request_id', "fault"))
                       /\ UNCHANGED <<wpc, server_pending>>
    /\ UNCHANGED <<ws, socket>>
    /\ WsFrame

\* asyncio.wait_for(self.ws.recv(), timeout=10.0) and the rest (lines 107-131):
\* recv() returns the oldest unread message of the connection
SendRequestRecv ==
    /\ wpc = "recv"
    /\ \/ /\ socket # <<>>
          /\ ws_results' = Append(ws_results, ResultOf(Head(socket), sent_id))
          /\ socket' = Tail(socket)
       \/ /\ socket = <<>>
          /\ ws_results' = Append(ws_results, Failed("TimeoutError", sent_id, "timeout"))
          /\ UNCHANGED socket
       \/ \E e \in TransportFaults :
            /\ ws_results' = Append(ws_results, Failed(e, sent_id, "fault"))
            /\ UNCHANGED socket
    /\ wpc' = "idle"
    /\ UNCHANGED <<ws, request_id, sent_id, server_pending>>
    /\ WsFrame

\* the server answers one of the requests it has received, whenever it gets to it
ServerRespond ==
    /\ \E id \in server_pending, success \in BOOLEAN, error \in ServerErrors :
          /\ socket' = Append(socket, Response(id, success, error))
          /\ server_pending' = server_pending \ {id}
    /\ UNCHANGED <<ws, request_id, wpc, sent_id, ws_results>>
    /\ WsFrame

WsNext == connect \/ disconnect \/ SendRequestSend \/ SendRequestRecv \/ ServerRespond

WsSpec == Init /\ [][WsNext]_vars

\* the event loop runs a coroutine that is ready
FairWsSpec == WsSpec /\ WF_vars(SendRequestRecv)


(***************************************************************************)
(* The dataset read helpers of both tools, called once on every            *)
(* observation of a node                                                   *)
(***************************************************************************)
ReadTables == {"employees", "products"}

Returned(value) == [raised |-> NULL, value |-> value]
Raised(e) == [raised |-> e, value |-> NULL]

\* multi_pc_test_harness.db_query: db_connect raises when the file does not
\* exist, and nothing catches what sqlite raises
harness_db_query(obs, table) ==
    CASE obs.db = "missing" -> Raised("FileNotFoundError")
      [] obs.db = "broken" -> Raised("sqlite3.DatabaseError")
      [] OTHER -> Returned(<<db_count(obs, table)>>)

\* multi_pc_test_harness.db_count: result[0]["cnt"] if result else 0
harness_db_count(obs, table) ==
    LET result == harness_db_query(obs, table) IN
    IF result.raised # NULL THEN result ELSE Returned(result.value[1])

ReadHelpers ==
    {"runner.db_query", "runner.db_count", "harness.db_query", "harness.db_count"}

ReadCall ==
    /\ read_out = <<>>
    /\ \E helper \in ReadHelpers, table \in ReadTables :
          read_out' = <<[helper |-> helper, table |-> table,
                         out |-> CASE helper = "runner.db_query" ->
                                          Returned(db_query_settings(evalObs))
                                   [] helper = "runner.db_count" ->
                                          Returned(db_count(evalObs, table))
                                   [] helper = "harness.db_query" ->
                                          harness_db_query(evalObs, table)
                                   [] helper = "harness.db_count" ->
                                          harness_db_count(evalObs, table)]>>
    /\ UNCHANGED <<baseVars, wsVars, logVars, checkVars, sideVars>>

ReadSpec == EvalInit /\ [][ReadCall]_vars


(***************************************************************************)
(* ProfessionalLogger.log, step by step, called by one worker thread per   *)
(* roster node                                                             *)
(***************************************************************************)
MaxLogCalls == 3     \* calls of logger.log in all

LogLevels == {"INFO", "WARN", "ERROR"}

RECURSIVE Pad(_, _)
\* f"{s:n}": s padded with blanks on the right to n characters
Pad(s, n) == IF Len(s) >= n THEN s ELSE Pad(s \o " ", n)

\* _format_file (the time of day, the context and the error left out)
format_file(entry) ==
    "[" \o Pad(entry.level, 5) \o "] [" \o Pad(entry.category, 8) \o "] ["
        \o Pad(entry.pc_id, 11) \o "] " \o entry.message

\* json.dumps(asdict(entry)), the same fields
format_json(entry) ==
    "{\"level\": \"" \o entry.level \o "\", \"category\": \"" \o entry.category
        \o "\", \"pc_id\": \"" \o entry.pc_id \o "\", \"message\": \""
        \o entry.message \o "\"}"

\* a variant of log that appends and counts without taking the lock
LogEnter_Unlocked(pc_id) ==
    /\ lpc[pc_id] = "idle"
    /\ Len(entry_list) < MaxLogCalls
    /\ \E level \in LogLevels :
          LET entry == LogEntry(level, "TEST", pc_id, "message") IN
          /\ Log(<<entry>>)
          /\ entry_list' = Append(entry_list, entry)
          /\ log_entry' = [log_entry EXCEPT ![pc_id] = <<entry>>]
    /\ logger_lock' = pc_id
    /\ lpc' = [lpc EXCEPT ![pc_id] = "emit"]
    /\ UNCHANGED <<log_file, json_file, error_file, wsVars, read_out, checkVars, callVars, gsVars>>
    /\ UNCHANGED <<monitorVars, validatorVars, runnerVars, evalVars, runVars,
                   mainVars, batchVars, registry>>

\* lines 205-228: the entry is built, the lock taken, the entry appended and
\* counted
LogEnter(pc_id) ==
    /\ lpc[pc_id] = "idle"
    /\ logger_lock = "none"
    /\ Len(entry_list) < MaxLogCalls
    /\ \E level \in LogLevels :
          LET entry == LogEntry(level, "TEST", pc_id, "message") IN
          /\ Log(<<entry>>)
          /\ entry_list' = Append(entry_list, entry)
          /\ log_entry' = [log_entry EXCEPT ![pc_id] = <<entry>>]
    /\ logger_lock' = pc_id
    /\ lpc' = [lpc EXCEPT ![pc_id] = "emit"]
    /\ UNCHANGED <<log_file, json_file, error_file, wsVars, read_out, checkVars, callVars, gsVars>>
    /\ UNCHANGED <<monitorVars, validatorVars, runnerVars, evalVars, runVars,
                   mainVars, batchVars, registry>>

\* lines 230-245, still inside the with block: print to the console, append
\* to the log files; the lock is released when the block is left
LogEmit(pc_id) ==
    /\ lpc[pc_id] = "emit"
    /\ LET entry == log_entry[pc_id][1] IN
       /\ log_file' = Append(log_file, format_file(entry))
       /\ json_file' = Append(json_file, format_json(entry))
       /\ error_file' = IF entry.level \in {"ERROR", "FATAL"}
                        THEN Append(error_file, format_file(entry)) ELSE error_file
    /\ log_entry' = [log_entry EXCEPT ![pc_id] = <<>>]
    /\ logger_lock' = "none"
    /\ lpc' = [lpc EXCEPT ![pc_id] = "idle"]
    /\ UNCHANGED <<baseVars, wsVars, read_out, checkVars, callVars, gsVars, entry_list>>

LogNext == \E pc_id \in Roster : LogEnter(pc_id) \/ LogEmit(pc_id)

LogSpec == Init /\ [][LogNext]_vars


(***************************************************************************)
(* HealthMonitor.check_all called by the cycle thread (run_cycle) and by   *)
(* the dashboard thread (key 'r') on the same monitor                      *)
(***************************************************************************)
CheckFrame ==
    UNCHANGED <<validatorVars, runnerVars, evalVars, harnessVars, runVars,
                wsVars, read_out, logVars, sideVars>>

\* check_all is entered: run_cycle line 549, or draw line 490
CheckAllBegin(t) ==
    /\ check_idx[t] \in {0, Len(PC_CONFIG) + 1}
    /\ clock + Len(PC_CONFIG) <= MaxCycles * Len(PC_CONFIG)
    /\ check_idx' = [check_idx EXCEPT ![t] = 1]
    /\ UNCHANGED <<monitorVars, check_status>>
    /\ CheckFrame

\* check_pc lines 115-182: the status is built with timestamp = now, then
\* the dataset (present: no early return) and the log are read; the reference
\* node may have lost its employees
CheckPcBuild(t) ==
    /\ check_idx[t] \in 1..Len(PC_CONFIG)
    /\ check_status[t] = <<>>
    /\ \E obs \in {o \in CycleObs : /\ o.db = "ok"
                                    /\ o.employees = 0 => check_idx[t] = 1} :
          check_status' = [check_status EXCEPT
                              ![t] = <<HealthEval(PC_CONFIG[check_idx[t]], clock, obs)>>]
    /\ clock' = clock + 1
    /\ UNCHANGED <<statuses, history, alerts, returned, check_idx>>
    /\ CheckFrame

\* check_pc lines 184-199: under self._lock the status is stored and appended
CheckPcRecord(t) ==
    /\ check_status[t] # <<>>
    /\ LET pc_id == PC_CONFIG[check_idx[t]]
           status == check_status[t][1] IN
       /\ RecordStatus(pc_id, status)
       /\ returned' = [returned EXCEPT ![pc_id] = Append(@, status)]
    /\ check_idx' = [check_idx EXCEPT ![t] = @ + 1]
    /\ check_status' = [check_status EXCEPT ![t] = <<>>]
    /\ UNCHANGED clock
    /\ CheckFrame

CheckNext == \E t \in CheckThreads : CheckAllBegin(t) \/ CheckPcBuild(t) \/ CheckPcRecord(t)

CheckSpec == Init /\ [][CheckNext]_vars


(***************************************************************************)
(* multi_pc_test_harness.py: test_stock_consistency on datasets that are   *)
(* read, for every pair of seed id sets                                    *)
(***************************************************************************)
MaxSeed == 6      \* seed product ids prod-1 .. prod-MaxSeed

SeedIds == 1..MaxSeed

\* a variant that fails from five missing ids on
test_stock_consistency_FromFive(pc_id, cnt, master_ids, local_ids) ==
    IF pc_id = MASTER
    THEN IF cnt < 5
         THEN [failures |-> <<"Insufficient products with stock">>, events |-> <<>>]
         ELSE [failures |-> <<>>,
               events |-> <<LogEntry("INFO", "SYNC", pc_id, "Master stock OK")>>]
    ELSE LET missing == master_ids \ local_ids
             n == Cardinality(missing)
             failures == IF n >= 5
                         THEN <<"Missing " \o ToString(n) \o " seed products on " \o pc_id>>
                         ELSE <<>>
             debug == IF missing # {} /\ ~(n >= 5)
                      THEN <<LogEntry("DEBUG", "SYNC", pc_id, "Minor sync difference")>>
                      ELSE <<>>
             info == IF failures = <<>>
                     THEN <<LogEntry("INFO", "SYNC", pc_id, "Stock consistency OK")>>
                     ELSE <<>>
         IN [failures |-> failures, events |-> debug \o info]

\* what test_stock_consistency returns (failures) and logs (events); cnt is
\* the reference node's number of products with stock
test_stock_consistency(pc_id, cnt, master_ids, local_ids) ==
    IF pc_id = MASTER
    THEN IF cnt < 5
         THEN [failures |-> <<"Insufficient products with stock">>, events |-> <<>>]
         ELSE [failures |-> <<>>,
               events |-> <<LogEntry("INFO", "SYNC", pc_id, "Master stock OK")>>]
    ELSE LET missing == master_ids \ local_ids
             n == Cardinality(missing)
             failures == IF n > 5
                         THEN <<"Missing " \o ToString(n) \o " seed products on " \o pc_id>>
                         ELSE <<>>
             debug == IF missing # {} /\ ~(n > 5)
                      THEN <<LogEntry("DEBUG", "SYNC", pc_id, "Minor sync difference")>>
                      ELSE <<>>
             info == IF failures = <<>>
                     THEN <<LogEntry("INFO", "SYNC", pc_id, "Stock consistency OK")>>
                     ELSE <<>>
         IN [failures |-> failures, events |-> debug \o info]

StockInit ==
    /\ IdleButCall
    /\ call_in \in {<<c>> : c \in [pc_id : Roster, cnt : {4, 5},
                                    master_ids : SUBSET SeedIds,
                                    local_ids : SUBSET SeedIds]}
    /\ call_out = <<>>

StockCall ==
    /\ call_out = <<>>
    /\ LET c == call_in[1] IN
       call_out' = <<test_stock_consistency(c.pc_id, c.cnt, c.master_ids, c.local_ids)>>
    /\ UNCHANGED <<baseVars, wsVars, read_out, logVars, checkVars, fileVars, gsVars, call_in>>

StockSpec == StockInit /\ [][StockCall]_vars

(***************************************************************************)
(* ReportSpec: the end of main. The console summary, then the HTML and the *)
(* JSON document, each from its own get_summary of the same registry       *)
(***************************************************************************)
MaxReport == 3    \* results in the registry when the reports are written

RECURSIVE Join(_, _)
\* sep.join(seq)
Join(seq, sep) ==
    IF seq = <<>> THEN ""
    ELSE IF Len(seq) = 1 THEN seq[1]
    ELSE seq[1] \o sep \o Join(Tail(seq), sep)

RECURSIVE RegistryOf(_)
\* the registry after run_test has registered one result per outcome
RegistryOf(outs) ==
    IF outs = <<>> THEN <<>>
    ELSE LET k == Len(outs)
             id == TestId(MASTER, "test_required_data", ToString(10000000 + k))
         IN register(RegistryOf(SubSeq(outs, 1, k - 1)),
                     TestResult(id, "test_required_data", MASTER, "DATABASE", outs[k]))

\* the results print_summary and the HTML details section select
FailedTests(reg) == {id \in DOMAIN reg : reg[id].status \in {"FAILED", "ERROR"}}

\* print_summary: the counts box, then one block of lines per FAILED or ERROR
\* result (keyed here by the result it is printed for)
print_summary(reg) ==
    LET s == TestRegistry_get_summary(reg)
    IN [view |-> "console", total |-> s.total, passed |-> s.passed,
        failed |-> s.failed, errors |-> s.errors,
        details |-> [id \in FailedTests(reg) |->
                        <<"[" \o reg[id].pc_id \o "] " \o reg[id].test_name>>
                        \o reg[id].failures
                        \o (IF reg[id].error # "None"
                            THEN <<"Error: " \o reg[id].error>> ELSE <<>>)]]

\* generate_html_report: the stat cards, and the details section that is
\* rendered unless summary['failed'] == 0 (the table of results left out)
generate_html_report(reg) ==
    LET s == TestRegistry_get_summary(reg)
    IN [view |-> "html", total |-> s.total, passed |-> s.passed,
        failed |-> s.failed, errors |-> s.errors,
        details |-> IF s.failed = 0 THEN <<>>
                    ELSE [id \in FailedTests(reg) |->
                            <<reg[id].test_name \o " (" \o reg[id].pc_id \o "): "
                              \o (IF reg[id].failures # <<>>
                                  THEN Join(reg[id].failures, ", ")
                                  ELSE reg[id].error)>>]]

\* generate_json_report: the summary dict as it is
generate_json_report(reg) ==
    LET s == TestRegistry_get_summary(reg)
    IN [view |-> "json", total |-> s.total, passed |-> s.passed,
        failed |-> s.failed, errors |-> s.errors]

ReportInit ==
    /\ IdleButCall
    /\ call_in \in {<<RegistryOf(outs)>> :
                      outs \in UNION {[1..n -> Outcomes] : n \in 0..MaxReport}}
    /\ call_out = <<>>

ReportFrame == UNCHANGED <<baseVars, wsVars, read_out, logVars, checkVars, fileVars, gsVars, call_in>>

\* test_registry.print_summary()
ReportPrintSummary ==
    /\ Len(call_out) = 0
    /\ call_out' = <<print_summary(call_in[1])>>
    /\ ReportFrame

\* generate_html_report(...), --report all
ReportHtml ==
    /\ Len(call_out) = 1
    /\ call_out' = Append(call_out, generate_html_report(call_in[1]))
    /\ ReportFrame

\* generate_json_report(...), --report all
ReportJson ==
    /\ Len(call_out) = 2
    /\ call_out' = Append(call_out, generate_json_report(call_in[1]))
    /\ ReportFrame

\* a variant that looks at the FAILED count only
ExitStatus_FailedOnly(s) == IF s.failed = 0 THEN 0 ELSE 1

\* line 1200: 0 if summary["failed"] == 0 and summary["errors"] == 0 else 1
ExitStatus(s) == IF s.failed = 0 /\ s.errors = 0 THEN 0 ELSE 1

\* lines 1199-1200: summary = test_registry.get_summary(); sys.exit(...)
ReportExit ==
    /\ Len(call_out) = 3
    /\ LET s == TestRegistry_get_summary(call_in[1])
       IN call_out' = Append(call_out,
                             [view |-> "exit", total |-> s.total, passed |-> s.passed,
                              failed |-> s.failed, errors |-> s.errors,
                              status |-> ExitStatus(s)])
    /\ ReportFrame

ReportNext == ReportPrintSummary \/ ReportHtml \/ ReportJson \/ ReportExit

ReportSpec == ReportInit /\ [][ReportNext]_vars

(***************************************************************************)
(* SnapshotSpec: draw (line 407) calls get_summary in the main thread      *)
(* while the cycle thread is in check_all. get_summary takes no lock: it   *)
(* iterates statuses.values() three times, then reads len(statuses)        *)
(***************************************************************************)
GsFrame ==
    UNCHANGED <<baseVars, wsVars, read_out, logVars, checkVars, callVars, fileVars>>

\* the call begins: the first generator starts to iterate the dict
GsBegin ==
    /\ gs_pc = "idle"
    /\ gs_pc' = "OK"
    /\ gs_acc' = [size |-> Cardinality(DOMAIN statuses)]
    /\ GsFrame

\* a pass over statuses.values() ends: RuntimeError when a key was inserted
\* since it began (dictionary changed size during iteration), else its count
\* is kept and the next pass begins
GsPass(level, next) ==
    /\ gs_pc = level
    /\ IF Cardinality(DOMAIN statuses) # gs_acc.size
       THEN gs_pc' = "RuntimeError" /\ UNCHANGED gs_acc
       ELSE /\ gs_pc' = next
            /\ gs_acc' = [x \in DOMAIN gs_acc \cup {level} |->
                             IF x = level THEN CountStatus(level) ELSE gs_acc[x]]
    /\ GsFrame

\* lines 213-222: the dict is built with len(self.statuses) and returned
GsReturn ==
    /\ gs_pc = "total"
    /\ gs_pc' = "done"
    /\ gs_acc' = [x \in DOMAIN gs_acc \cup {"total"} |->
                     IF x = "total" THEN Cardinality(DOMAIN statuses) ELSE gs_acc[x]]
    /\ GsFrame

SnapshotNext ==
    \/ CheckAllBegin("test_loop")
    \/ CheckPcBuild("test_loop")
    \/ CheckPcRecord("test_loop")
    \/ GsBegin
    \/ GsPass("OK", "WARN") \/ GsPass("WARN", "ERROR") \/ GsPass("ERROR", "total")
    \/ GsReturn

SnapshotSpec == Init /\ [][SnapshotNext]_vars

(***************************************************************************)
(* ReferenceSpec: validate_products in run_cycle, on datasets that may be  *)
(* missing or unreadable                                                   *)
(***************************************************************************)
\* a node's dataset: the state of its file, and its product table
Datasets ==
    {[db |-> "ok", table |-> t] : t \in TablesOver({"5.00", "5.02"})}
        \cup {[db |-> s, table |-> EmptyTable] : s \in DbStates \ {"ok"}}

\* db_query (lines 63-76) for the products query: [] when the file does not
\* exist or the query raises
db_query_products(ds) == IF ds.db = "ok" THEN ds.table ELSE EmptyTable

ReferenceInit ==
    /\ IdleButCall
    /\ call_in \in {<<d>> : d \in [Roster -> Datasets]}
    /\ call_out = <<>>

RefFrame ==
    UNCHANGED <<runnerVars, monitorVars, evalVars, harnessVars, runVars,
                wsVars, read_out, logVars, checkVars, fileVars, gsVars>>

RefReadMaster ==
    /\ vpc = "idle"
    /\ ValidateReadMaster({db_query_products(call_in[1][MASTER])})
    /\ UNCHANGED callVars
    /\ RefFrame

RefPeer ==
    /\ vidx \in 1..Len(PC_CONFIG)
    /\ ValidatePeer({db_query_products(call_in[1][PC_CONFIG[vidx]])})
    /\ UNCHANGED callVars
    /\ RefFrame

RefStore == ValidateStore /\ UNCHANGED callVars /\ RefFrame

RefReturn == ValidateReturn /\ UNCHANGED callVars /\ RefFrame

\* run_cycle lines 558-565: what the cycle logs about the pass
RefReport ==
    /\ vpc = "returned"
    /\ call_out = <<>>
    /\ call_out' = <<IF inconsistencies # <<>>
                     THEN "Found " \o ToString(Len(inconsistencies)) \o " sync inconsistencies!"
                     ELSE "All PCs synchronized">>
    /\ UNCHANGED <<validatorVars, call_in>>
    /\ RefFrame

ReferenceNext == RefReadMaster \/ RefPeer \/ RefStore \/ RefReturn \/ RefReport

ReferenceSpec == ReferenceInit /\ [][ReferenceNext]_vars

(***************************************************************************)
(* Properties                                                              *)
(***************************************************************************)
Count(seq, P(_)) == Cardinality({i \in 1..Len(seq) : P(seq[i])})

\* C1: every HealthStatus check_pc returns has status ERROR iff it carries an
\* error, WARN iff it carries no error and some warning, OK iff it carries
\* neither (dataset missing, normal evaluation, exception during evaluation).
C1_StatusMatchesFindings ==
    \A i \in 1..Len(evalOut) :
        LET s == evalOut[i] IN
        /\ s.status = "ERROR" <=> s.errors # <<>>
        /\ s.status = "WARN" <=> (s.errors = <<>> /\ s.warnings # <<>>)
        /\ s.status = "OK" <=> (s.errors = <<>> /\ s.warnings = <<>>)

\* the exception path with warnings collected before the fault
C1_Witness ==
    /\ evalOut # <<>>
    /\ evalObs.db = "ok" /\ evalObs.log = "unreadable"
    /\ evalOut[1].warnings # <<>>
    /\ evalOut[1].status = "ERROR"

\* C7: check_pc on a node whose dataset does not exist returns a HealthStatus
\* with db_accessible false, exactly one error, no warning, status ERROR and
\* all counts 0; no later rule (counts, network settings, log) has acted.
C7_MissingDataset ==
    \A i \in 1..Len(evalOut) :
        evalObs.db = "missing" =>
            LET s == evalOut[i] IN
            /\ s.db_accessible = FALSE
            /\ s.errors = <<"Database file not found">>
            /\ s.warnings = <<>>
            /\ s.status = "ERROR"
            /\ s.employee_count = 0 /\ s.product_count = 0 /\ s.sale_count = 0
            /\ s.network_connected = TRUE

\* a missing dataset beside a log without marker and with errors
C7_Witness ==
    /\ evalOut # <<>>
    /\ evalObs.db = "missing" /\ evalNode # MASTER
    /\ evalObs.log = "present" /\ ~evalObs.connected /\ evalObs.logerr
    /\ ~evalObs.net

IsPeerIndex(j) == j \in 1..Len(PC_CONFIG) /\ PC_CONFIG[j] # MASTER

\* the first peer of the roster after position i, Len(PC_CONFIG) + 1 when none
FirstPeerAfter(i, j) ==
    /\ j \in (i+1)..(Len(PC_CONFIG) + 1)
    /\ j <= Len(PC_CONFIG) => IsPeerIndex(j)
    /\ \A k \in (i+1)..(j-1) : ~IsPeerIndex(k)

NewIssues == SubSeq(issues', Len(issues) + 1, Len(issues'))

PeerCompared == vpc = "peers" /\ vpc' = "peers" /\ vidx' # vidx

\* C5: a pass reports as missing exactly the pairs (peer, id) with id among the
\* reference node's product ids and not among the peer's: one finding for each,
\* none for an id both hold, none for the reference node.  Stated on the steps
\* of the pass: it starts with no finding at the first peer, each comparison
\* adds exactly the missing findings of that peer and moves to the next peer,
\* and the pass stores its findings once every peer is compared.
C5_MissingFindingsExact ==
    [][ /\ (vpc' = "peers" /\ vpc # "peers") =>
              issues' = <<>> /\ FirstPeerAfter(0, vidx')
        /\ PeerCompared =>
              /\ IsPeerIndex(vidx) /\ FirstPeerAfter(vidx, vidx')
              /\ SubSeq(issues', 1, Len(issues)) = issues
              /\ \A k \in 1..Len(NewIssues) : NewIssues[k].pc_id = PC_CONFIG[vidx]
              /\ \A id \in ProductIds :
                    Count(NewIssues, LAMBDA f : f.type = "MISSING_PRODUCT" /\ f.product_id = id)
                      = IF id \in DOMAIN master_dict /\ id \notin DOMAIN local_dict'
                        THEN 1 ELSE 0
        /\ (vpc = "peers" /\ vpc' = "stored") =>
              vidx > Len(PC_CONFIG) /\ inconsistencies' = issues
      ]_vars

\* reference {prod-001, prod-002}, peer {prod-001}: one missing finding, for
\* prod-002 on the peer, and no mismatch finding
C5_Witness ==
    /\ vpc = "stored"
    /\ DOMAIN master_dict = ProductIds
    /\ DOMAIN local_dict = {ProductIdSeq[1]}
    /\ Len(inconsistencies) >= 1
    /\ \A k \in 1..Len(inconsistencies) :
          inconsistencies[k].type = "MISSING_PRODUCT" /\ inconsistencies[k].pc_id # MASTER
    /\ Count(inconsistencies, LAMBDA f : f.pc_id = PC_CONFIG[Len(PC_CONFIG)]) = 1

\* the findings the data read for one peer justifies
Justified(f, pc_id, md, ld) ==
    /\ f.pc_id = pc_id
    /\ f.product_id \in DOMAIN md
    /\ \/ f.type = "MISSING_PRODUCT" /\ f.product_id \notin DOMAIN ld
       \/ /\ f.type = "PRICE_MISMATCH" /\ f.product_id \in DOMAIN ld
          /\ md[f.product_id].sale_price # ld[f.product_id].sale_price
          /\ f.master_price = md[f.product_id].sale_price
          /\ f.local_price = ld[f.product_id].sale_price

\* C6: the validator's findings after a pass are the findings of that pass over
\* the data it read: the pass starts from no finding, every finding it collects
\* is justified by the rows just read (at most one per peer and product), and
\* storing replaces the previous findings, carrying nothing over.
C6_FindingsReplaced ==
    [][ /\ (vpc' = "peers" /\ vpc # "peers") => issues' = <<>>
        /\ PeerCompared =>
              /\ SubSeq(issues', 1, Len(issues)) = issues
              /\ \A k \in 1..Len(NewIssues) :
                    Justified(NewIssues[k], PC_CONFIG[vidx], master_dict, local_dict')
              /\ \A id \in ProductIds :
                    Count(NewIssues, LAMBDA f : f.product_id = id) <= 1
        /\ (vpc = "peers" /\ vpc' = "stored") =>
              inconsistencies' = issues
      ]_vars

\* an earlier pass stored findings; the pass now ending read both products on
\* the reference node and on the peer, found nothing, and is about to store
C6_Witness ==
    /\ vpc = "peers" /\ vidx > Len(PC_CONFIG)
    /\ inconsistencies # <<>>
    /\ issues = <<>>
    /\ DOMAIN master_dict = ProductIds
    /\ DOMAIN local_dict = ProductIds


Last(seq) == seq[Len(seq)]

\* C8: every call of check_pc(n) appends the HealthStatus it returns to n's
\* history and makes it n's current status, so that the history holds every
\* returned status and, a cycle's checks done, has one entry per cycle.
C8_EveryCheckRecorded ==
    \A n \in Roster :
        /\ history[n] = returned[n]
        /\ returned[n] # <<>> => n \in DOMAIN statuses /\ statuses[n] = Last(returned[n])
        /\ rpc \in {"validate", "report"} => Len(history[n]) = cycle

\* check i of node n returned ERROR and the check before it, if any, did not
EntersError(n, i) ==
    /\ returned[n][i].status = "ERROR"
    /\ i > 1 => returned[n][i-1].status # "ERROR"

\* C9: the alerts of a node are one per check of it that moved it into ERROR
\* (ERROR now, not ERROR or no status before), and no other.
C9_AlertOnTransitionIntoError ==
    \A n \in Roster :
        Count(alerts, LAMBDA a : a.pc_id = n)
          = Cardinality({i \in 1..Len(returned[n]) : EntersError(n, i)})

\* an alert made from a HealthStatus of the node's history
IsHealthAlert(a) ==
    \E i \in 1..Len(history[a.pc_id]) : a = AlertOf(history[a.pc_id][i])

\* C10: a cycle's validation pass done, each of its findings has its Alert
\* (time, node id, level, messages) in the alert sequence: for every node, as
\* many alerts beside those of its health checks as the pass found for it.
C10_AlertPerFinding ==
    (rpc = "report") =>
        \A n \in Roster :
            Count(alerts, LAMBDA a : a.pc_id = n /\ ~IsHealthAlert(a))
              >= Count(inconsistencies, LAMBDA f : f.pc_id = n)

TerminalStatuses == {"PASSED", "FAILED", "SKIPPED", "ERROR"}

\* the executions of run_test that have returned: node and position in its batch
Executions == UNION {{<<n, i>> : i \in 1..Len(results[n])} : n \in Roster}

\* C2: every execution of run_test that has returned has its TestResult in the
\* registry, under a test_id no other execution has used, with a terminal
\* status, and the registered result is still the one that execution returned.
C2_OneResultPerExecution ==
    /\ \A x \in Executions :
          LET r == results[x[1]][x[2]]
          IN /\ r.test_id \in DOMAIN registry
             /\ registry[r.test_id] = r
             /\ r.status \in TerminalStatuses
    /\ \A x, y \in Executions :
          x # y => results[x[1]][x[2]].test_id # results[y[1]][y[2]].test_id

\* C3: when the check of a node never returns, the run still goes on or has
\* returned with a timeout-classified TestResult registered for that node.
C3_HungNodeTimesOut ==
    \A n \in Roster :
        bpc[n] = "hung" =>
            \/ ENABLED HarnessNext
            \/ /\ hpc = "returned"
               /\ \E id \in DOMAIN registry :
                     registry[id].pc_id = n /\ registry[id].status = "TIMEOUT"

\* the ERROR events the per-node boundary has logged for node n
BoundaryErrors(n) ==
    LET e == LogEntry("ERROR", "TEST", n, "Test execution failed")
    IN IF e \in DOMAIN entries THEN entries[e] ELSE 0

EmployeeErrors == {"No employees in database"}

MentionsEmployees(s) == \E i \in 1..Len(s.errors) : s.errors[i] \in EmployeeErrors

\* C11 as stated: every HealthStatus check_pc returns with employee_count 0 has
\* status ERROR and an error mentioning employees.
C11_NoEmployeesIsError ==
    \A i \in 1..Len(evalOut) :
        evalOut[i].employee_count = 0 =>
            evalOut[i].status = "ERROR" /\ MentionsEmployees(evalOut[i])

\* C11 amended: every HealthStatus check_pc returns for a node whose database
\* file exists, with employee_count 0, has status ERROR and the error
\* "No employees in database".
C11_NoEmployeesIsError_Reachable ==
    \A i \in 1..Len(evalOut) :
        (~ReturnsEarly(evalObs) /\ evalOut[i].employee_count = 0) =>
            evalOut[i].status = "ERROR" /\ MentionsEmployees(evalOut[i])

\* an existing database with no employee row, products and settings in order
C11_Witness ==
    /\ evalOut # <<>>
    /\ evalObs.db = "ok" /\ evalObs.employees = 0 /\ evalObs.products = 10
    /\ evalObs.net /\ evalObs.log = "missing"
    /\ evalOut[1].employee_count = 0
    /\ evalOut[1].errors = <<"No employees in database">>

\* C12: the TestResult of a node's last run_test follows from what the check
\* did and nothing else: an empty result gives PASSED without failures; a
\* non-empty list gives FAILED with that list as failures, in its order; an
\* assertion failure gives FAILED with its message as the only failure; any
\* other exception gives ERROR with its text in error and no failures.
C12_ClassifiedByOutcome ==
    \A n \in Roster :
        (results[n] # <<>> /\ bpc[n] \in {"running", "done"}) =>
            LET r == results[n][Len(results[n])] IN
            /\ fn_outcome[n] = "empty" =>
                  r.status = "PASSED" /\ r.failures = <<>> /\ r.error = "None"
            /\ fn_outcome[n] = "failures" =>
                  /\ r.status = "FAILED" /\ r.error = "None"
                  /\ r.failures = <<"second check failed", "first check failed">>
            /\ fn_outcome[n] = "AssertionError" =>
                  r.status = "FAILED" /\ r.failures = <<"expected value">> /\ r.error = "None"
            /\ fn_outcome[n] = "Exception" =>
                  r.status = "ERROR" /\ r.error = "unexpected fault" /\ r.failures = <<>>
            /\ registry[r.test_id] = r

\* a batch whose two checks ended differently: a list of failures, then a fault
C12_Witness ==
    \E n \in Roster :
        /\ bpc[n] = "done" /\ Len(results[n]) = 2
        /\ results[n][1].status = "FAILED" /\ Len(results[n][1].failures) = 2
        /\ fn_outcome[n] = "Exception" /\ results[n][2].status = "ERROR"

\* C13: a check that does not apply to its node gives a TestResult with status
\* SKIPPED, not PASSED.
C13_NotApplicableIsSkipped ==
    \A x \in Executions :
        LET r == results[x[1]][x[2]] IN
        NotApplicable(r.test_name, r.pc_id) => r.status = "SKIPPED"

\* C14: the status of a check execution changes only along PENDING -> RUNNING
\* -> one terminal status: an execution begins PENDING, RUNNING is entered from
\* PENDING alone, a terminal status from RUNNING alone.
C14_StatusLifecycle ==
    [][\A n \in Roster :
          cur_status'[n] # cur_status[n] =>
              \/ cur_status'[n] = "PENDING"
              \/ cur_status[n] = "PENDING" /\ cur_status'[n] = "RUNNING"
              \/ cur_status[n] = "RUNNING" /\ cur_status'[n] \in TerminalStatuses]_vars

\* C15: a step that registers a TestResult stores it under its test_id and
\* keeps every other entry; when the id was present the number of stored
\* results is unchanged, otherwise it grows by one; registering the result once
\* more changes nothing; and no step ever removes a registered id.
C15_RegisterOverwrites ==
    [][/\ DOMAIN registry \subseteq DOMAIN registry'
       /\ \A n \in Roster :
             results'[n] # results[n] =>
                 LET r == results'[n][Len(results'[n])] IN
                 /\ r.test_id \in DOMAIN registry'
                 /\ registry'[r.test_id] = r
                 /\ \A id \in DOMAIN registry \ {r.test_id} : registry'[id] = registry[id]
                 /\ Cardinality(DOMAIN registry') =
                       IF r.test_id \in DOMAIN registry
                       THEN Cardinality(DOMAIN registry)
                       ELSE Cardinality(DOMAIN registry) + 1
                 /\ register(registry', r) = registry']_vars

\* the same test ran twice on a node under one test_id, with different results:
\* the registry holds the second result alone
C15_Witness ==
    \E n \in Roster :
        /\ Len(results[n]) = 2
        /\ results[n][1].test_id = results[n][2].test_id
        /\ results[n][1].status = "PASSED" /\ results[n][2].status = "FAILED"
        /\ DOMAIN registry = {results[n][2].test_id}
        /\ registry[results[n][2].test_id] = results[n][2]

\* C16: the summary's total, passed, failed and errors are the numbers of
\* stored results overall and with status PASSED, FAILED and ERROR; pass_rate
\* is "N/A" exactly when nothing is stored, and otherwise passed/total as a
\* percentage with one decimal: 7 of 10 gives "70.0%", 1 of 3 "33.3%", 2 of 3
\* "66.7%", 1 of 8 "12.5%", none "0.0%", all "100.0%".
C16_SummaryCounts ==
    \A i \in 1..Len(summary) :
        LET s == summary[i] IN
        /\ s.total = Cardinality(DOMAIN registry)
        /\ s.passed = Cardinality({id \in DOMAIN registry : registry[id].status = "PASSED"})
        /\ s.failed = Cardinality({id \in DOMAIN registry : registry[id].status = "FAILED"})
        /\ s.errors = Cardinality({id \in DOMAIN registry : registry[id].status = "ERROR"})
        /\ s.pass_rate = "N/A" <=> s.total = 0
        /\ (s.passed = 7 /\ s.total = 10) => s.pass_rate = "70.0%"
        /\ (s.passed = 1 /\ s.total = 3) => s.pass_rate = "33.3%"
        /\ (s.passed = 2 /\ s.total = 3) => s.pass_rate = "66.7%"
        /\ (s.passed = 1 /\ s.total = 8) => s.pass_rate = "12.5%"
        /\ (s.passed = 0 /\ s.total > 0) => s.pass_rate = "0.0%"
        /\ (s.passed = s.total /\ s.total > 0) => s.pass_rate = "100.0%"

\* ten results, 7 PASSED, 2 FAILED and 1 ERROR, summarised
C16_Witness ==
    /\ summary # <<>>
    /\ summary[1].total = 10 /\ summary[1].passed = 7
    /\ summary[1].failed = 2 /\ summary[1].errors = 1
    /\ summary[1].pass_rate = "70.0%"

\* the summary of an empty registry
C16_WitnessEmpty == summary # <<>> /\ summary[1].total = 0 /\ summary[1].pass_rate = "N/A"

\* the names of the checks a batch runs, in order, for each scenario list: the
\* scenarios as requested, the checks of a scenario as SCENARIO_TESTS lists them
DeclaredOrder(scs) ==
    CASE scs = <<"pdv">> -> <<"test_pdv_sale_flow">>
      [] scs = <<"pdv", "stress">> -> <<"test_pdv_sale_flow", "test_concurrent_sales">>
      [] scs = <<"pdv", "pdv">> -> <<"test_pdv_sale_flow", "test_pdv_sale_flow">>
      [] scs = <<"database">> -> <<"test_database_integrity", "test_required_data">>
      [] scs = <<"network", "pdv">> ->
            <<"test_network_config", "test_master_connectivity", "test_pdv_sale_flow">>
      [] scs = <<"smoke">> -> <<>>

\* C17: the checks of a node's batch run one at a time in the declared order:
\* the results of a node are those of the first checks of the order, each
\* registered; a check in progress is the next of the order, started after
\* every earlier check of the node has registered its result; a finished batch
\* has run them all. Nothing relates the positions of two nodes.
C17_BatchInDeclaredOrder ==
    \A n \in Roster :
        LET order == DeclaredOrder(scenarios) IN
        /\ Len(results[n]) <= Len(order)
        /\ \A i \in 1..Len(results[n]) :
              /\ results[n][i].test_name = order[i]
              /\ results[n][i].test_id \in DOMAIN registry
        /\ bpc[n] \in {"in_test", "hung"} =>
              /\ Len(results[n]) < Len(order)
              /\ \E hex \in Hex8 :
                    cur_test_id[n] = TestId(n, order[Len(results[n]) + 1], hex)
        /\ bpc[n] = "done" => Len(results[n]) = Len(order)

\* two nodes with a check in progress at once, one at its second check and the
\* other at its first
C17_Witness ==
    \E n, m \in Roster :
        /\ bpc[n] = "in_test" /\ Len(results[n]) = 1
        /\ bpc[m] = "in_test" /\ Len(results[m]) = 0
        /\ scenarios = <<"pdv", "stress">>

\* C18: once the stop-signal handler has cleared running, no new cycle starts:
\* the cycle counter never increases again.
C18_NoCycleAfterStop == [][~running => cycle' = cycle]_vars

C20_SummaryIsTerminal == final_count > 0 => rpc = "exited"

\* C21: every result send_request builds from a response is built from the
\* response to the request it sent: the response read by the call that sent
\* id k was written for request k, also after an earlier request timed out
C21_ResponseMatchesRequest ==
    \A i \in 1..Len(ws_results) :
        ws_results[i].cause = "response" => ws_results[i].answered = ws_results[i].id

SentCalls == {i \in 1..Len(ws_results) : ws_results[i].id # NoId}

C22_Returns ==
    /\ \A i \in 1..Len(ws_results) :
          LET r == ws_results[i] IN
          /\ r.cause = "not connected" =>
                ~r.success /\ r.error = "Not connected" /\ r.id = NoId
          /\ r.cause = "timeout" => ~r.success
          /\ r.error = "Timeout" <=> r.cause = "timeout"
    /\ \A i, j \in SentCalls : i < j => ws_results[i].id < ws_results[j].id
    /\ \A id \in server_pending : id <= request_id
    /\ Cardinality(SentCalls) + (IF wpc = "recv" THEN 1 ELSE 0) = request_id

C23_ReadNeverRaises ==
    read_out # <<>> => read_out[1].out.raised = NULL

\* C24: a fault raised inside a cycle is contained: it does not end the
\* cycle loop, and the run does not end without its final summary
C24_CycleFaultContained ==
    /\ rpc # "raised"
    /\ mpc = "terminated" => final_count = 1

\* C25: under a malformed configuration (here a check interval that is not
\* positive) the run is rejected before any cycle begins: no cycle is ever
\* executed
C25_MalformedConfigRejected == interval <= 0 => cycle = 0 /\ rpc \in {"loop", "raised"}

\* C26: no thread is at an I/O operation (console print, file write) while
\* it holds a lock of a shared collection: under the lock only the guarded
\* collection is updated
C26_NoIoUnderLock ==
    \A pc_id \in Roster : lpc[pc_id] = "emit" => logger_lock # pc_id

\* C27: in every node's history the timestamps are non-decreasing in append
\* order, however the check_all of the cycle thread and the check_all of the
\* dashboard thread interleave
C27_HistoryInTimestampOrder ==
    \A n \in Roster : \A i, j \in 1..Len(history[n]) :
        i < j => history[n][i].timestamp <= history[n][j].timestamp

NoMasterConnection == "No master connection in logs"

\* C28: for a node whose dataset is reachable and whose runtime log is read:
\* a log with a connected/authenticated marker gives network_connected = true
\* and no connectivity warning; a log without a marker on a node other than
\* the reference node gives network_connected = false and the
\* no-master-connection warning, so the status is WARN or ERROR; the
\* reference node never gets that warning, whatever its log
C28_LogConnectivity ==
    evalOut # <<>> =>
        LET s == evalOut[1] IN
        /\ (evalObs.db # "missing" /\ evalObs.log = "present" /\ evalObs.connected) =>
              s.network_connected /\ NoMasterConnection \notin Range(s.warnings)
        /\ (evalObs.db # "missing" /\ evalObs.log = "present" /\ ~evalObs.connected
                /\ evalNode # MASTER) =>
              /\ ~s.network_connected
              /\ NoMasterConnection \in Range(s.warnings)
              /\ s.status \in {"WARN", "ERROR"}
        /\ evalNode = MASTER => NoMasterConnection \notin Range(s.warnings)

\* a satellite with a healthy dataset whose log has no marker: WARN
C28_Witness ==
    /\ evalOut # <<>>
    /\ evalNode # MASTER
    /\ evalObs.db = "ok" /\ evalObs.log = "present" /\ ~evalObs.connected
    /\ evalObs.employees = 3 /\ evalObs.products = 10 /\ evalObs.net /\ ~evalObs.logerr
    /\ evalOut[1].status = "WARN"
    /\ evalOut[1].warnings = <<NoMasterConnection>>

LowWarning(s, what, counts) ==
    \E n \in counts : ("Low " \o what \o " count: " \o ToString(n)) \in Range(s.warnings)

\* C29: for a reachable node the employee error is present exactly when
\* employee_count = 0 and the low-employee warning exactly when
\* 0 < employee_count < 3; the product error exactly when product_count = 0
\* and the low-product warning exactly when 0 < product_count < 10; a low
\* count without a zero count and without a failed check is never ERROR
C29_CountRules ==
    (evalOut # <<>> /\ evalObs.db # "missing") =>
        LET s == evalOut[1] IN
        /\ "No employees in database" \in Range(s.errors) <=> s.employee_count = 0
        /\ LowWarning(s, "employee", EmployeeCounts)
              <=> (0 < s.employee_count /\ s.employee_count < 3)
        /\ "No products in database" \in Range(s.errors) <=> s.product_count = 0
        /\ LowWarning(s, "product", ProductCounts)
              <=> (0 < s.product_count /\ s.product_count < 10)
        /\ (s.employee_count > 0 /\ s.product_count > 0 /\ evalObs.log # "unreadable")
              => s.status # "ERROR"

\* one employee and nine products on a reachable node: two warnings, WARN
C29_Witness ==
    /\ evalOut # <<>>
    /\ evalObs.db = "ok" /\ evalObs.employees = 1 /\ evalObs.products = 9
    /\ evalObs.net /\ evalObs.log = "missing"
    /\ evalOut[1].warnings = <<"Low employee count: 1", "Low product count: 9">>
    /\ evalOut[1].status = "WARN"

\* the pairs of prices of the domain that differ by more than 0.01
BeyondTolerance(a, b) == {a, b} = {"5.00", "5.02"}

IsMismatch(f, id) == f.type = "PRICE_MISMATCH" /\ f.product_id = id

MissingOnPeer == call_in[1].master_ids \ call_in[1].local_ids

EventsAt(levels) ==
    {k \in 1..Len(call_out[1].events) : call_out[1].events[k].level \in levels}

\* C31: on a peer, test_stock_consistency fails exactly when more than 5 of
\* the reference node's seed ids are missing on the peer; with 1 to 5 missing
\* it passes and reports the difference by one debug-level event and by no
\* warning or error; with none missing it passes without that event
C31_StockTolerance ==
    (call_out # <<>> /\ call_in[1].pc_id # MASTER) =>
        LET n == Cardinality(MissingOnPeer) IN
        /\ call_out[1].failures # <<>> <=> n > 5
        /\ Cardinality(EventsAt({"DEBUG"})) = IF n \in 1..5 THEN 1 ELSE 0
        /\ EventsAt({"WARN", "ERROR", "FATAL"}) = {}

\* exactly five ids missing on a peer: passed, with the debug event
C31_Witness ==
    /\ call_out # <<>>
    /\ call_in[1].pc_id # MASTER
    /\ Cardinality(MissingOnPeer) = 5
    /\ call_out[1].failures = <<>>
    /\ Cardinality(EventsAt({"DEBUG"})) = 1

\* the registry the reports are written from
ReportedRegistry == call_in[1]

\* the view lists the result id with the messages of its failures, or with
\* its error text
ListsResult(v, id) ==
    LET r == ReportedRegistry[id]
        text == IF r.failures # <<>> THEN Join(r.failures, ", ") ELSE r.error
    IN /\ id \in DOMAIN v.details
       /\ IF v.view = "console"
          THEN /\ \A i \in 1..Len(r.failures) :
                     \E j \in 1..Len(v.details[id]) : v.details[id][j] = r.failures[i]
               /\ r.error # "None" =>
                     \E j \in 1..Len(v.details[id]) : v.details[id][j] = "Error: " \o r.error
          ELSE v.details[id] = <<r.test_name \o " (" \o r.pc_id \o "): " \o text>>

\* C32: every FAILED or ERROR result is listed with its failure messages or
\* its error text in the console summary and in the HTML document, whatever
\* the numbers of FAILED and ERROR results are, and the console, JSON and HTML
\* views show the same passed / failed / errors counts.
C32_FailuresListedEverywhere ==
    /\ \A i \in 1..Len(call_out) :
          call_out[i].view \in {"console", "html"} =>
             \A id \in FailedTests(ReportedRegistry) : ListsResult(call_out[i], id)
    /\ \A i, j \in 1..Len(call_out) :
          /\ call_out[i].passed = call_out[j].passed
          /\ call_out[i].failed = call_out[j].failed
          /\ call_out[i].errors = call_out[j].errors

\* s is a prefix of t
IsPrefix(s, t) == Len(s) <= Len(t) /\ SubSeq(t, 1, Len(s)) = s

\* C33: the per-node histories and the alert sequence are append-only: every
\* step leaves the earlier content of each of them as a prefix of the new one.
C33_AppendOnly ==
    [][/\ \A n \in Roster : IsPrefix(history[n], history'[n])
       /\ IsPrefix(alerts, alerts')]_vars

\* both threads have recorded a status of the same node, each with an alert
C33_Witness ==
    \E n \in Roster : Len(history[n]) >= 2 /\ Len(alerts) >= 2

IsErrorEntry(e) == e.level \in {"ERROR", "FATAL"}
IsWarnEntry(e) == e.level = "WARN"

\* the calls of log that have returned
CompletedLogCalls == Len(json_file)

\* C34: under any interleaving of log calls no entry is lost or duplicated:
\* the counters are the numbers of stored ERROR/FATAL and WARN entries, the
\* human log, the JSONL log and the errors-only log hold the entries in the
\* order of the in-memory list, and once no call is in progress the number of
\* stored entries is the number of completed calls.
C34_LoggerConsistent ==
    LET done == SubSeq(entry_list, 1, CompletedLogCalls)
        errs == SelectSeq(done, IsErrorEntry)
    IN /\ error_count = Len(SelectSeq(entry_list, IsErrorEntry))
       /\ warn_count = Len(SelectSeq(entry_list, IsWarnEntry))
       /\ CompletedLogCalls <= Len(entry_list)
       /\ log_file = [i \in 1..Len(done) |-> format_file(done[i])]
       /\ json_file = [i \in 1..Len(done) |-> format_json(done[i])]
       /\ error_file = [i \in 1..Len(errs) |-> format_file(errs[i])]
       /\ (\A pc_id \in Roster : lpc[pc_id] = "idle") =>
              Len(entry_list) = CompletedLogCalls

\* calls of two threads have returned, an ERROR and a WARN among them
C34_Witness ==
    /\ \A pc_id \in Roster : lpc[pc_id] = "idle"
    /\ Len(entry_list) >= 3
    /\ \E i, j \in 1..Len(entry_list) : entry_list[i].pc_id # entry_list[j].pc_id
    /\ error_count >= 1 /\ warn_count >= 1 /\ Len(error_file) >= 1

\* the registered results of test number i of the batch of node n
ResultsFor(n, i) ==
    {id \in DOMAIN registry : /\ registry[id].pc_id = n
                              /\ registry[id].test_name = BatchTests(scenarios)[i].name}

\* the tests the batch of node n has finished: all of them when it returned,
\* those before the fault when it raised
FinishedTests(n) ==
    IF bpc[n] = "done" THEN Len(BatchTests(scenarios)) ELSE tpos[n] - 1

C36_SummaryIsSnapshot ==
    /\ gs_pc # "RuntimeError"
    /\ gs_pc = "done" => gs_acc.OK + gs_acc.WARN + gs_acc.ERROR = gs_acc.total

\* C37: check_all returned, every roster node has a current status and it is
\* the one computed for it in this pass, so that get_summary counts a node
\* whose dataset was unreachable in this pass as ERROR.
C37_StatusesAreOfThisPass ==
    rpc \in {"validate", "report"} =>
       /\ \A n \in Roster :
             /\ n \in DOMAIN statuses
             /\ statuses[n] = Last(returned[n])
       /\ get_summary.total = Cardinality(Roster)
       /\ get_summary.error
            = Cardinality({n \in Roster : Last(returned[n]).status = "ERROR"})

\* the datasets of the pass
PassDatasets == call_in[1]

\* the peer's dataset holds the reference product id at a price within tolerance
HoldsProduct(peer, id) ==
    /\ PassDatasets[peer].db = "ok"
    /\ id \in DOMAIN PassDatasets[peer].table
    /\ ~PriceDiffers(PassDatasets[MASTER].table[id].sale_price,
                     PassDatasets[peer].table[id].sale_price)

\* C38: the pass returns no finding, and the cycle logs that all nodes are
\* synchronized, only if the reference node's product data was read and every
\* peer holds every reference product at a price within tolerance.
C38_SynchronizedMeansCompared ==
    (call_out = <<"All PCs synchronized">>) =>
       /\ PassDatasets[MASTER].db = "ok"
       /\ \A peer \in Roster \ {MASTER} : \A id \in DOMAIN PassDatasets[MASTER].table :
             HoldsProduct(peer, id)

\* C39: a HealthStatus of a non-reference node has network_connected = true
\* only if the node's runtime log was read in that check and held a connected
\* or authenticated marker; with the log or the dataset missing the node is
\* not reported as connected.
C39_ConnectedOnlyByMarker ==
    \A i \in 1..Len(evalOut) :
        (evalNode # MASTER /\ evalOut[i].network_connected) =>
            /\ evalObs.db # "missing"
            /\ evalObs.log = "present"
            /\ evalObs.connected

\* C40: main exits with status 0 if and only if, the batches finished and the
\* reports written, the registry holds no FAILED and no ERROR result, and
\* with status 1 otherwise; so also for a registry left empty or short by a
\* faulted batch or by a scenario name without tests.
C40_ExitStatus ==
    \A i \in 1..Len(call_out) :
        call_out[i].view = "exit" =>
            /\ call_out[i].status \in {0, 1}
            /\ call_out[i].status = 0 <=> FailedTests(ReportedRegistry) = {}

\* main has exited with 1 on a registry with an ERROR result and no FAILED one
C40_Witness ==
    /\ Len(call_out) = 4
    /\ call_out[4].view = "exit" /\ call_out[4].status = 1
    /\ \E id \in DOMAIN ReportedRegistry : ReportedRegistry[id].status = "ERROR"
    /\ \A id \in DOMAIN ReportedRegistry : ReportedRegistry[id].status # "FAILED"

\* main has exited with 0 on an empty registry
C40_WitnessEmpty ==
    Len(call_out) = 4 /\ call_out[4].status = 0 /\ DOMAIN ReportedRegistry = {}

=============================================================================
